---- MODULE Spec2Model ----
(***************************************************************************)
(* Crawl engine of the League of Legends data scraper:                     *)
(*   - RateLimiter            (infrastructure/api/rate_limiter.py)         *)
(*   - DataScraperService     (application/services/data_scraper/...)      *)
(*   - ScrapeMatchesUseCase   (application/use_cases/scrape_matches.py)    *)
(*   - RetryPolicy            (application/services/health/retry_policy.py)*)
(*   - CircuitBreaker         (application/services/health/...)            *)
(*   - SeedDiscoveryService   (application/services/seed.py, seed/...)     *)
(*   - RiotAPIClient          (infrastructure/api/riot_client.py)          *)
(* Time is counted in tenths of a second, the resolution of the limiter's  *)
(* default wait (0.1 s).                                                   *)
(***************************************************************************)
EXTENDS Integers, Sequences, FiniteSets, TLC

(***************************************************************************)
(* Bounds of the model                                                     *)
(***************************************************************************)
NumCallers == 3
MaxCalls == 4
MaxLimit10Sec == 2
MaxLimit10Min == 2
MaxTime == 6200
NumPuuids == 3
NumMatches == 2
MaxTarget == 2
MaxSeedLen == 1
MaxExisting == 1
MaxJobCalls == 2
MAX_CONCURRENT_REQUESTS == 2
MaxAttempts == 3
NumKeys == 1
MaxThreshold == 2
MaxResetTimeout == 2
MaxClock == 4
MaxFailures == 3
NumSummonerIds == 2
MaxEntries == 1
MaxCount == 2
NumSeedPuuids == 2
MaxChecks == 2
NumRequesters == 2
MaxRetries == 2
MaxDetailIds == 2

(***************************************************************************)
(* Program constants of the rate limiter, in tenths of a second            *)
(***************************************************************************)
TicksPerSecond == 10
ShortWindow == 10 * TicksPerSecond
LongWindow == 600 * TicksPerSecond
DefaultWait == 1

VARIABLES
    requests_per_10_sec,    \* RateLimiter.requests_per_10_sec
    requests_per_10_min,    \* RateLimiter.requests_per_10_min
    request_times_10_sec,   \* deque of grant times, short window
    request_times_10_min,   \* deque of grant times, long window
    now,                    \* time.time()
    lock_holder,            \* owner of RateLimiter._lock, 0 when free
    lock_waiters,           \* FIFO of callers blocked on RateLimiter._lock
    rl_pc,                  \* per caller: "idle", "wait", "ready", "sleep"
    rl_op,                  \* per caller: "none", "acquire", "reset"
    wake_at,                \* per caller: end of its asyncio.sleep
    calls,                  \* number of acquire/reset calls issued so far
    epoch,                  \* number of resets performed so far
    grants,                 \* history: <<time, epoch, slept>> of every granted acquire
    existing_ids,           \* match ids read from the store by ScrapeMatchesUseCase.__init__
    uc_scraped_match_ids,   \* ScrapeMatchesUseCase.scraper_service.scraped_match_ids
    scraped_match_ids,      \* local DataScraperService.scraped_match_ids
    scraped_puuids,         \* local DataScraperService.scraped_puuids
    processed_puuids,       \* local DataScraperService.processed_puuids
    seed_puuids,            \* seed_puuids_by_region.get(region), 0 is the empty string
    max_matches,            \* max_matches of the running call
    puuid_queue,            \* the frontier of the running call
    matches,                \* match ids of the matches collected by the running call
    empty_rounds,           \* empty_rounds of the running call
    job_pc,                 \* "idle", "loop", "batch", "complete", "exhausted", "error"
    limit,                  \* limit of the running batch
    tasks,                  \* the _scrape_puuid tasks of the running batch
    job_calls,              \* number of calls of scrape_matches_by_date_window so far
    hist,                   \* history of the running call and of the detail fetches
    policy,                 \* the RetryPolicy object: class and dataclass fields
    is_transient,           \* the is_transient argument of run
    attempt,                \* attempt of the running run
    backoff_ms,             \* backoff_ms of the running run
    rp_pc,                  \* "idle", "call", "sleep", "returned", "raised"
    rp_result,              \* value returned or error raised by run
    rp_log,                 \* history: outcome and sleep of every supplier call
    failure_threshold,      \* CircuitBreaker.failure_threshold
    reset_timeout_s,        \* CircuitBreaker.reset_timeout_s
    cb_states,              \* CircuitBreaker._states, per key
    cb_now,                 \* time.time() as read by the breaker, in seconds
    cb_last,                \* history: the last call, its result and what it saw
    cb_streak,              \* history: record_failure calls since the last record_success
    cb_opened_at,           \* history: time of the last opening, -1 when none
    cb_probes,              \* history: calls let through since the open interval
                            \* expired and no outcome was recorded
    sd_impl,                \* "module": services/seed.py, "package": services/seed/
    count,                  \* count of the running discover_seed_puuids
    summoner_ids,           \* summoner_ids of the running discover_seed_puuids
    summoner_names,         \* summoner_names of the running call (package only)
    sd_top,                 \* league answers awaited so far (package only), dropped
                            \* once the loop over them is done
    sd_page,                \* index of the next (tier, division) page
    sd_pc,                  \* "idle", "fast", "top", "slow", "resolve", "names",
                            \* "ids", "returned", "raised"
    sd_name_results,        \* results of the gather of get_summoner_by_name
    sd_results,             \* results of the gather whose puuids are returned
    sd_ret,                 \* the list returned by discover_seed_puuids
    max_retries,            \* max_retries of the _make_request calls
    rq,                     \* per caller of _make_request: its position, endpoint_type,
                            \* attempt, and history of the call
    rq_grants,              \* history: granted acquires per limiter
    rq_sent,                \* history: requests sent per limiter
    fd_target,              \* settings.TARGET_PATCH as read by _fetch_match_details
    fd_seen,                \* DataScraperService.scraped_match_ids
    fd_known,               \* DataScraperService.scraped_puuids
    fd,                     \* per task of the batch: its _fetch_match_details call
    match_sem,              \* DataScraperService._match_sem._value
    peer_scraped_match_ids, \* scraped_match_ids of the local service of the other
                            \* queue type of the region
    hc                      \* the running HTTPChecker.check call and its history

rlvars == <<requests_per_10_sec, requests_per_10_min, request_times_10_sec,
            request_times_10_min, now, lock_holder, lock_waiters, rl_pc, rl_op,
            wake_at, calls, epoch, grants>>

crawlvars == <<existing_ids, uc_scraped_match_ids, scraped_match_ids, scraped_puuids,
               processed_puuids, seed_puuids, max_matches, puuid_queue, matches,
               empty_rounds, job_pc, limit, tasks, job_calls, hist>>

retryvars == <<policy, is_transient, attempt, backoff_ms, rp_pc, rp_result, rp_log>>

cbvars == <<failure_threshold, reset_timeout_s, cb_states, cb_now, cb_last, cb_streak,
            cb_opened_at, cb_probes>>

seedvars == <<sd_impl, count, summoner_ids, summoner_names, sd_top, sd_page, sd_pc,
              sd_name_results, sd_results, sd_ret>>

reqvars == <<max_retries, rq, rq_grants, rq_sent>>

detvars == <<fd_target, fd_seen, fd_known, fd, match_sem>>

peervars == <<peer_scraped_match_ids>>

checkvars == <<hc>>

clientvars == <<reqvars, detvars, peervars, checkvars>>

othervars == <<retryvars, cbvars, seedvars, clientvars>>

vars == <<rlvars, crawlvars, othervars>>

Callers == 1..NumCallers

Max(a, b) == IF a >= b THEN a ELSE b

Min(a, b) == IF a <= b THEN a ELSE b

SeqToSet(s) == {s[i] : i \in 1..Len(s)}

(***************************************************************************)
(* RateLimiter                                                             *)
(***************************************************************************)

\* mutant of Evict: an entry is dropped as soon as its age reaches the window
RECURSIVE EvictAtEdge(_, _, _)
EvictAtEdge(q, t, window) ==
    IF q # <<>> /\ t - Head(q) >= window THEN EvictAtEdge(Tail(q), t, window) ELSE q

\* while (q and current_time - q[0] > window): q.popleft()
RECURSIVE Evict(_, _, _)
Evict(q, t, window) ==
    IF q # <<>> /\ t - Head(q) > window THEN Evict(Tail(q), t, window) ELSE q

\* mutant of CanRequest: off by one
CanRequestOffByOne(q, lim) == Len(q) <= lim

\* can_request_10_sec / can_request_10_min (lines 64-65)
CanRequest(q, lim) == Len(q) < lim

\* mutant of WaitTime: the smaller of the two expiry times when both windows are full
WaitTimeSmaller(q10, q600, t) ==
    LET full10  == ~CanRequest(q10, requests_per_10_sec) /\ q10 # <<>>
        full600 == ~CanRequest(q600, requests_per_10_min) /\ q600 # <<>>
        w10     == Max(DefaultWait, ShortWindow - (t - Head(q10)))
        w600    == Max(DefaultWait, LongWindow - (t - Head(q600)))
    IN IF full10 /\ full600 THEN Min(w10, w600)
       ELSE IF full10 THEN w10
       ELSE IF full600 THEN w600
       ELSE DefaultWait

\* wait_time of one failed check (lines 73-84)
WaitTime(q10, q600, t) ==
    LET w0 == DefaultWait
        w1 == IF ~CanRequest(q10, requests_per_10_sec) /\ q10 # <<>>
              THEN Max(w0, ShortWindow - (t - Head(q10))) ELSE w0
        w2 == IF ~CanRequest(q600, requests_per_10_min) /\ q600 # <<>>
              THEN Max(w1, LongWindow - (t - Head(q600))) ELSE w1
    IN w2

\* get_status(): (used_10_sec, limit_10_sec, used_10_min, limit_10_min)
get_status ==
    << Cardinality({i \in 1..Len(request_times_10_sec) :
                        now - request_times_10_sec[i] <= ShortWindow}),
       requests_per_10_sec,
       Cardinality({i \in 1..Len(request_times_10_min) :
                        now - request_times_10_min[i] <= LongWindow}),
       requests_per_10_min >>

RLInit ==
    /\ requests_per_10_sec \in 1..MaxLimit10Sec
    /\ requests_per_10_min \in 1..MaxLimit10Min
    /\ request_times_10_sec = <<>>
    /\ request_times_10_min = <<>>
    /\ now = 0
    /\ lock_holder = 0
    /\ lock_waiters = <<>>
    /\ rl_pc = [p \in Callers |-> "idle"]
    /\ rl_op = [p \in Callers |-> "none"]
    /\ wake_at = [p \in Callers |-> 0]
    /\ calls = 0
    /\ epoch = 0
    /\ grants = <<>>

\* `async with self._lock` on entry: taken at once when free and nobody queues
LockFree == lock_holder = 0 /\ lock_waiters = <<>>

\* mutant of Release: the lock is freed but the first waiter is not woken
ReleaseNoWakeup(p, pc1) ==
    /\ lock_holder' = 0
    /\ rl_pc' = pc1
    /\ lock_waiters' = lock_waiters

\* leaving `async with self._lock`: the lock passes to the first waiter
Release(p, pc1) ==
    IF lock_waiters = <<>>
    THEN /\ lock_holder' = 0
         /\ rl_pc' = pc1
         /\ lock_waiters' = lock_waiters
    ELSE /\ lock_holder' = Head(lock_waiters)
         /\ rl_pc' = [pc1 EXCEPT ![Head(lock_waiters)] = "ready"]
         /\ lock_waiters' = Tail(lock_waiters)

\* mutant of SleepHolder: the lock is given up for the time of the sleep
SleepHolderNone(p) == 0

\* the owner of the lock while p sleeps: `await asyncio.sleep(wait_time)` is inside
\* `async with self._lock` (lines 49, 87)
SleepHolder(p) == p

\* one pass of the `while True` body of acquire, run by the lock holder p
AcquireLoop(p) ==
    LET q10  == Evict(request_times_10_sec, now, ShortWindow)
        q600 == Evict(request_times_10_min, now, LongWindow)
    IN IF CanRequest(q10, requests_per_10_sec) /\ CanRequest(q600, requests_per_10_min)
       THEN /\ request_times_10_sec' = Append(q10, now)
            /\ request_times_10_min' = Append(q600, now)
            /\ grants' = Append(grants, <<now, epoch, rl_pc[p] = "sleep">>)
            /\ rl_op' = [rl_op EXCEPT ![p] = "none"]
            /\ Release(p, [rl_pc EXCEPT ![p] = "idle"])
            /\ UNCHANGED wake_at
       ELSE /\ request_times_10_sec' = q10
            /\ request_times_10_min' = q600
            /\ wake_at' = [wake_at EXCEPT ![p] = now + WaitTime(q10, q600, now)]
            /\ rl_pc' = [rl_pc EXCEPT ![p] = "sleep"]
            /\ rl_op' = [rl_op EXCEPT ![p] = "acquire"]
            /\ lock_holder' = SleepHolder(p)
            /\ UNCHANGED <<lock_waiters, grants>>

\* mutant of ResetBody: only the short window is cleared
ResetBodyShortOnly(p) ==
    /\ request_times_10_sec' = <<>>
    /\ request_times_10_min' = request_times_10_min
    /\ epoch' = epoch + 1
    /\ rl_op' = [rl_op EXCEPT ![p] = "none"]
    /\ Release(p, [rl_pc EXCEPT ![p] = "idle"])
    /\ UNCHANGED <<wake_at, grants>>

\* the body of reset, run by the lock holder p
ResetBody(p) ==
    /\ request_times_10_sec' = <<>>
    /\ request_times_10_min' = <<>>
    /\ epoch' = epoch + 1
    /\ rl_op' = [rl_op EXCEPT ![p] = "none"]
    /\ Release(p, [rl_pc EXCEPT ![p] = "idle"])
    /\ UNCHANGED <<wake_at, grants>>

\* a caller enters acquire()
AcquireCall(p) ==
    /\ rl_pc[p] = "idle"
    /\ calls < MaxCalls
    /\ calls' = calls + 1
    /\ IF LockFree
       THEN AcquireLoop(p) /\ UNCHANGED epoch
       ELSE /\ lock_waiters' = Append(lock_waiters, p)
            /\ rl_pc' = [rl_pc EXCEPT ![p] = "wait"]
            /\ rl_op' = [rl_op EXCEPT ![p] = "acquire"]
            /\ UNCHANGED <<request_times_10_sec, request_times_10_min, lock_holder,
                           wake_at, epoch, grants>>
    /\ UNCHANGED <<requests_per_10_sec, requests_per_10_min, now, crawlvars, othervars>>

\* a caller enters reset()
ResetCall(p) ==
    /\ rl_pc[p] = "idle"
    /\ calls < MaxCalls
    /\ calls' = calls + 1
    /\ IF LockFree
       THEN ResetBody(p)
       ELSE /\ lock_waiters' = Append(lock_waiters, p)
            /\ rl_pc' = [rl_pc EXCEPT ![p] = "wait"]
            /\ rl_op' = [rl_op EXCEPT ![p] = "reset"]
            /\ UNCHANGED <<request_times_10_sec, request_times_10_min, lock_holder,
                           wake_at, epoch, grants>>
    /\ UNCHANGED <<requests_per_10_sec, requests_per_10_min, now, crawlvars, othervars>>

\* a caller that was handed the lock runs on
LockResume(p) ==
    /\ rl_pc[p] = "ready"
    /\ lock_holder = p
    /\ IF rl_op[p] = "reset"
       THEN ResetBody(p)
       ELSE AcquireLoop(p) /\ UNCHANGED epoch
    /\ UNCHANGED <<requests_per_10_sec, requests_per_10_min, now, calls, crawlvars, othervars>>

\* asyncio.sleep(wait_time) is over: the loop checks again
SleepOver(p) ==
    /\ rl_pc[p] = "sleep"
    /\ now >= wake_at[p]
    /\ AcquireLoop(p)
    /\ UNCHANGED <<requests_per_10_sec, requests_per_10_min, now, calls, epoch,
                   crawlvars, othervars>>

\* The clock moves to one of the next instants at which the limiter can behave
\* differently: the end of a sleep, or just after a grant, or at or just past the
\* edge of a window of a recorded grant.
ClockOffsets == {1, ShortWindow, ShortWindow + 1, LongWindow, LongWindow + 1}

Wakeups == {wake_at[p] : p \in {c \in Callers : rl_pc[c] = "sleep"}}

Instants ==
    Wakeups
    \cup {g + d : g \in SeqToSet(request_times_10_min) \cup SeqToSet(request_times_10_sec),
                  d \in ClockOffsets}

Tick ==
    /\ \E t \in Instants :
          /\ t > now
          /\ t <= MaxTime \/ t \in Wakeups
          /\ now' = t
    /\ UNCHANGED <<requests_per_10_sec, requests_per_10_min, request_times_10_sec,
                   request_times_10_min, lock_holder, lock_waiters, rl_pc, rl_op,
                   wake_at, calls, epoch, grants, crawlvars, othervars>>

RLNext ==
    \/ \E p \in Callers : AcquireCall(p)
    \/ \E p \in Callers : ResetCall(p)
    \/ \E p \in Callers : LockResume(p)
    \/ \E p \in Callers : SleepOver(p)
    \/ Tick


(***************************************************************************)
(* DataScraperService: one local service of ScrapeMatchesUseCase.execute   *)
(* and the calls of scrape_matches_by_date_window made on it               *)
(***************************************************************************)

Puuids == 1..NumPuuids

Matches == 1..NumMatches

\* `MAX_EMPTY = 5`
MAX_EMPTY == 5

\* settings.MATCHES_PER_SUMMONER and settings.IDS_PER_PUUID (their defaults)
MATCHES_PER_SUMMONER == 20

IDS_PER_PUUID == 20

\* settings.SEED_SUMMONERS and settings.SEED_PUUIDS are both '' (each summoner
\* name is identified with the puuid it resolves to)
SEED_SUMMONERS == <<>>

SEED_PUUIDS == <<>>

\* settings.TARGET_PATCH, character by character
TARGET_PATCH == <<"1", "6", ".", "3">>

WildcardPatches == {<<"a", "n", "y">>, <<"a", "l", "l">>, <<"*">>}

\* patch versions the remote matches carry
PatchVersions == {<<"1", "6", ".", "3", ".", "1">>, <<"1", "6", ".", "2">>}

\* what the caller of execute may pass as seeds of the region (0 is '')
SeedInputs == {<<>>, <<1, 0, 2, 3, 1>>}

\* the participants of a match of the remote graph
ParticipantsOf(m) == <<((m - 1) % NumPuuids) + 1, (m % NumPuuids) + 1>>

DupFreeSeqs(S, n) ==
    UNION {{q \in [1..k -> S] : \A i, j \in 1..k : i # j => q[i] # q[j]} : k \in 0..n}

\* what discover_seed_puuids may return: distinct non-empty puuids
SeedLists == DupFreeSeqs(Puuids, MaxSeedLen)

\* what get_match_ids_by_puuid may return for count = n
IdLists(n) == DupFreeSeqs(Matches, n)

\* the patch tags of the matches fetched by _fetch_match_details on its own
FetchedPatches == PatchVersions \cup {<<"1", "6", ".", "3">>}

\* outcome of one _get_match: an exception, None, or a match with a patch tag
FetchOutcomes ==
    {[ok |-> FALSE, raised |-> b, pv |-> <<>>] : b \in BOOLEAN}
        \cup {[ok |-> TRUE, raised |-> FALSE, pv |-> v] : v \in FetchedPatches}

\* outcome of one _get_match in the gather of _fetch_match_details: an exception
\* (raised), None, or a match of some patch version
DetailOutcomes ==
    {[ok |-> FALSE, raised |-> b, pv |-> <<>>] : b \in BOOLEAN}
        \cup {[ok |-> TRUE, raised |-> FALSE, pv |-> v] : v \in PatchVersions}

IsPrefix(a, b) == Len(a) <= Len(b) /\ SubSeq(b, 1, Len(a)) = a

\* str.lower(), on the letters that occur in the patch tags of the model
LowerChar(c) ==
    CASE c = "A" -> "a" [] c = "L" -> "l" [] c = "N" -> "n" [] c = "Y" -> "y"
      [] OTHER -> c

Lower(str) == [i \in 1..Len(str) |-> LowerChar(str[i])]

\* mutant of PatchTest: only the exact patch tag is accepted
PatchTestExact(target_patch, pv) ==
    ~ ( /\ target_patch # <<>>
        /\ target_patch \notin WildcardPatches
        /\ ~(pv = target_patch) )

\* the patch test of _fetch_match_details on the lowered strings (lines 212-214)
PatchTest(target_patch, pv) ==
    ~ ( /\ target_patch # <<>>
        /\ target_patch \notin WildcardPatches
        /\ ~(pv = target_patch \/ IsPrefix(target_patch, pv)) )

\* the patch test under the configured settings.TARGET_PATCH (lines 206-214)
PatchAccepted(pv) == PatchTest(Lower(TARGET_PATCH), Lower(pv))

\* for p in ps: if p and p not in scraped_puuids: add, append (lines 248-271)
RECURSIVE EnqueueUnscraped(_, _)
EnqueueUnscraped(ps, st) ==
    IF ps = <<>> THEN st
    ELSE LET p == Head(ps)
         IN IF p # 0 /\ p \notin st.scraped
            THEN EnqueueUnscraped(Tail(ps), [scraped |-> st.scraped \cup {p},
                                             queue |-> Append(st.queue, p)])
            ELSE EnqueueUnscraped(Tail(ps), st)

\* mutant of Enqueue: every offered candidate is appended, known or not
RECURSIVE EnqueueAgain(_, _)
EnqueueAgain(ps, st) ==
    IF ps = <<>> THEN st
    ELSE EnqueueAgain(Tail(ps), [scraped |-> st.scraped \cup {Head(ps)},
                                 queue |-> Append(st.queue, Head(ps))])

\* for p in ps: if p not in scraped_puuids and p not in processed_puuids: add,
\* append (lines 107-110 and 143-146)
RECURSIVE Enqueue(_, _)
Enqueue(ps, st) ==
    IF ps = <<>> THEN st
    ELSE LET p == Head(ps)
         IN IF p \notin st.scraped /\ p \notin processed_puuids
            THEN Enqueue(Tail(ps), [scraped |-> st.scraped \cup {p},
                                    queue |-> Append(st.queue, p)])
            ELSE Enqueue(Tail(ps), st)

\* mutant of FreshPuuids: every known puuid is returned, processed or not
FreshPuuidsAll(known) ==
    {q \in [1..Cardinality(known) -> known] :
        \A i, j \in 1..Cardinality(known) : i # j => q[i] # q[j]}

\* _fresh_puuids: the known puuids not yet processed, in the set's iteration order
FreshPuuids(known) ==
    LET f == known \ processed_puuids
    IN {q \in [1..Cardinality(f) -> f] : \A i, j \in 1..Cardinality(f) : i # j => q[i] # q[j]}

\* _bootstrap: the env seeds first, the league discovery when they give nothing
Bootstrap(sc, discovered) ==
    LET s1 == IF SEED_SUMMONERS # <<>>
              THEN EnqueueUnscraped(SEED_SUMMONERS, [scraped |-> sc, queue |-> <<>>])
              ELSE [scraped |-> sc, queue |-> <<>>]
        s2 == IF s1.queue = <<>> THEN EnqueueUnscraped(SEED_PUUIDS, s1) ELSE s1
    IN IF s2.queue = <<>> THEN EnqueueUnscraped(discovered, s2) ELSE s2

NoHist == [id_fetched |-> {}, detail_fetched |-> {}, seed_calls |-> 0,
           seed_found |-> FALSE, ids_found |-> FALSE, init_len |-> 0,
           boot |-> "skipped", fetched |-> {}, last_batch |-> 0,
           progress |-> <<>>, dry_refills |-> 0]

CrawlInit ==
    /\ existing_ids \in SUBSET (1..MaxExisting)
    /\ uc_scraped_match_ids = existing_ids
    /\ scraped_match_ids = {}
    /\ scraped_puuids = {}
    /\ processed_puuids = {}
    /\ seed_puuids \in SeedInputs
    /\ max_matches = 0
    /\ puuid_queue = <<>>
    /\ matches = <<>>
    /\ empty_rounds = 0
    /\ job_pc = "idle"
    /\ limit = 0
    /\ tasks = <<>>
    /\ job_calls = 0
    /\ hist = NoHist

\* the crawl side while only the rate limiter runs
CrawlParked == CrawlInit /\ existing_ids = {} /\ seed_puuids = <<>>

\* the rate limiter while only the crawl runs
RLParked == RLInit /\ requests_per_10_sec = 1 /\ requests_per_10_min = 1

\* mutant of StartFailed: the empty bootstrap is not reported, the loop starts
StartFailedSilently == job_pc' = "loop"

\* raise ValueError("No seed PUUIDs available. ...")
StartFailed == job_pc' = "error"

\* entry of scrape_matches_by_date_window up to the loop (lines 66-86), called
\* by execute with max_matches = n on the region's local service
StartJob(n) ==
    /\ job_pc \in {"idle", "complete", "exhausted", "error"}
    /\ job_calls < MaxJobCalls
    /\ job_calls' = job_calls + 1
    /\ max_matches' = n
    /\ matches' = <<>>
    /\ empty_rounds' = 0
    /\ LET sc1 == scraped_puuids \cup (SeqToSet(seed_puuids) \ {0})
       IN \E q0 \in FreshPuuids(sc1) :
            IF q0 # <<>>
            THEN /\ puuid_queue' = q0
                 /\ scraped_puuids' = sc1
                 /\ job_pc' = "loop"
                 /\ hist' = [NoHist EXCEPT !.fetched = hist.fetched,
                                           !.init_len = Len(q0)]
            ELSE \E discovered \in SeedLists :
                   LET b == Bootstrap(sc1, discovered)
                   IN /\ puuid_queue' = b.queue
                      /\ scraped_puuids' = b.scraped
                      /\ IF b.queue = <<>> THEN StartFailed ELSE job_pc' = "loop"
                      /\ hist' = [NoHist EXCEPT
                                    !.fetched = hist.fetched,
                                    !.seed_calls = 1,
                                    !.seed_found = (discovered # <<>>),
                                    !.boot = IF discovered = <<>> THEN "empty"
                                             ELSE "found"]
    /\ UNCHANGED <<existing_ids, uc_scraped_match_ids, scraped_match_ids,
                   processed_puuids, seed_puuids, limit, tasks, rlvars, othervars>>

\* the task of batch[i] up to its first await (lines 170-176)
StartTask(batch, i) ==
    IF batch[i] \in processed_puuids \cup {batch[j] : j \in 1..(i - 1)}
    THEN [puuid |-> batch[i], pc |-> "done", ids |-> <<>>, ok |-> FALSE,
          ms |-> <<>>, ps |-> <<>>, id_err |-> FALSE, raised |-> {}]
    ELSE [puuid |-> batch[i], pc |-> "ids", ids |-> <<>>, ok |-> FALSE,
          ms |-> <<>>, ps |-> <<>>, id_err |-> FALSE, raised |-> {}]

\* pop a batch and start its tasks (lines 117-124)
PopBatch(q, sc, er, h) ==
    LET bs    == Min(MAX_CONCURRENT_REQUESTS, Len(q))
        batch == SubSeq(q, 1, bs)
        room  == Max(1, max_matches - Len(matches))
    IN /\ puuid_queue' = SubSeq(q, bs + 1, Len(q))
       /\ scraped_puuids' = sc
       /\ empty_rounds' = er
       /\ limit' = Min(MATCHES_PER_SUMMONER, room)
       /\ tasks' = [i \in 1..bs |-> StartTask(batch, i)]
       /\ processed_puuids' = processed_puuids \cup SeqToSet(batch)
       /\ hist' = [h EXCEPT !.id_fetched =
                       @ \cup {batch[i] : i \in {k \in 1..bs : StartTask(batch, k).pc = "ids"}}]
       /\ job_pc' = "batch"

\* mutant of DryRound: the dry round is not counted
DryRoundUncounted(er) == er

\* empty_rounds += 1 (line 95)
DryRound(er) == er + 1

\* one pass of the loop from its top to the gather of the batch (lines 88-124)
LoopStep ==
    /\ job_pc = "loop"
    /\ IF Len(matches) >= max_matches
       THEN /\ job_pc' = "complete"
            /\ UNCHANGED <<puuid_queue, scraped_puuids, empty_rounds, limit, tasks,
                           processed_puuids, hist>>
       ELSE IF puuid_queue = <<>>
       THEN LET er == DryRound(empty_rounds)
            IN IF er >= MAX_EMPTY
               THEN /\ job_pc' = "exhausted"
                    /\ empty_rounds' = er
                    /\ UNCHANGED <<puuid_queue, scraped_puuids, limit, tasks,
                                   processed_puuids, hist>>
               ELSE \E fresh \in SeedLists :
                      LET st == Enqueue(fresh, [scraped |-> scraped_puuids,
                                                queue |-> puuid_queue])
                          h  == [hist EXCEPT !.seed_calls = Min(@ + 1, MAX_EMPTY),
                                             !.seed_found = @ \/ fresh # <<>>,
                                             !.dry_refills =
                                                 IF st.queue = <<>>
                                                 THEN Min(@ + 1, MAX_EMPTY) ELSE 0]
                      IN IF st.queue = <<>>
                         THEN /\ empty_rounds' = er
                              /\ hist' = h
                              /\ job_pc' = "loop"
                              /\ UNCHANGED <<puuid_queue, scraped_puuids, limit, tasks,
                                             processed_puuids>>
                         ELSE PopBatch(st.queue, st.scraped, 0, h)
       ELSE PopBatch(puuid_queue, scraped_puuids, empty_rounds, hist)
    /\ UNCHANGED <<existing_ids, uc_scraped_match_ids, scraped_match_ids, seed_puuids,
                   max_matches, matches, job_calls, rlvars, othervars>>

\* new_ids = [m for m in match_ids if m not in self.scraped_match_ids] (line 188)
NewIds(ids) == SelectSeq(ids, LAMBDA m : m \notin scraped_match_ids)

\* the match-id list of task i arrives, or its fetch raises (lines 176-196)
TaskIds(i) ==
    /\ job_pc = "batch"
    /\ i \in 1..Len(tasks)
    /\ tasks[i].pc = "ids"
    /\ \/ /\ tasks' = [tasks EXCEPT ![i].pc = "done", ![i].id_err = TRUE]
          /\ hist' = hist
       \/ \E ids \in IdLists(Min(IDS_PER_PUUID, limit)) :
            LET new_ids == NewIds(ids)
            IN /\ IF ids = <<>> \/ new_ids = <<>>
                  THEN /\ tasks' = [tasks EXCEPT ![i].pc = "done", ![i].ok = TRUE]
                       /\ hist' = [hist EXCEPT !.ids_found = @ \/ ids # <<>>]
                  ELSE LET to_fetch == SubSeq(new_ids, 1, Min(limit, Len(new_ids)))
                       IN /\ tasks' = [tasks EXCEPT ![i].pc = "details",
                                                    ![i].ids = to_fetch]
                          /\ hist' = [hist EXCEPT
                                        !.ids_found = TRUE,
                                        !.detail_fetched = @ \cup SeqToSet(to_fetch),
                                        !.fetched = @ \cup SeqToSet(to_fetch)]
    /\ UNCHANGED <<existing_ids, uc_scraped_match_ids, scraped_match_ids, scraped_puuids,
                   processed_puuids, seed_puuids, max_matches, puuid_queue, matches,
                   empty_rounds, job_pc, limit, job_calls, rlvars, othervars>>

\* the new puuids of one accepted match (lines 217-220)
NewPuuids(m, known) ==
    SelectSeq(ParticipantsOf(m), LAMBDA p : p # 0 /\ p \notin known)

\* mutant of ZipLoop: an accepted match replaces the seen set
RECURSIVE ZipLoopSeenLast(_, _, _, _, _, _)
ZipLoopSeenLast(ids, o, k, st, target_patch, known) ==
    IF k > Len(ids) THEN st
    ELSE IF o[k].ok /\ PatchTest(target_patch, Lower(o[k].pv))
    THEN ZipLoopSeenLast(ids, o, k + 1,
                         [seen   |-> {ids[k]},
                          ms     |-> Append(st.ms, ids[k]),
                          ps     |-> st.ps \o NewPuuids(ids[k], known),
                          raised |-> st.raised],
                         target_patch, known)
    ELSE ZipLoopSeenLast(ids, o, k + 1,
                         [st EXCEPT !.raised = IF o[k].raised THEN @ \cup {ids[k]} ELSE @],
                         target_patch, known)

\* the loop over zip(match_ids, results) of _fetch_match_details (lines 208-220)
\* for the lowered target patch and the set self.scraped_puuids
RECURSIVE ZipLoop(_, _, _, _, _, _)
ZipLoop(ids, o, k, st, target_patch, known) ==
    IF k > Len(ids) THEN st
    ELSE IF o[k].ok /\ PatchTest(target_patch, Lower(o[k].pv))
    THEN ZipLoop(ids, o, k + 1,
                 [seen   |-> st.seen \cup {ids[k]},
                  ms     |-> Append(st.ms, ids[k]),
                  ps     |-> st.ps \o NewPuuids(ids[k], known),
                  raised |-> st.raised],
                 target_patch, known)
    ELSE ZipLoop(ids, o, k + 1,
                 [st EXCEPT !.raised = IF o[k].raised THEN @ \cup {ids[k]} ELSE @],
                 target_patch, known)

\* the loop in the crawl job, under settings.TARGET_PATCH (lines 206-220)
DetailsFrom(ids, o, k, st) ==
    ZipLoop(ids, o, k, st, Lower(TARGET_PATCH), scraped_puuids)

\* the detail fetches of task i have all resolved (lines 198-222)
TaskDetails(i) ==
    /\ job_pc = "batch"
    /\ i \in 1..Len(tasks)
    /\ tasks[i].pc = "details"
    /\ \E o \in [1..Len(tasks[i].ids) -> DetailOutcomes] :
         LET r == DetailsFrom(tasks[i].ids, o, 1,
                              [seen |-> scraped_match_ids, ms |-> <<>>, ps |-> <<>>,
                               raised |-> {}])
         IN /\ scraped_match_ids' = r.seen
            /\ tasks' = [tasks EXCEPT ![i].pc = "done", ![i].ok = TRUE,
                                      ![i].ms = r.ms, ![i].ps = r.ps,
                                      ![i].raised = r.raised]
    /\ UNCHANGED <<existing_ids, uc_scraped_match_ids, scraped_puuids, processed_puuids,
                   seed_puuids, max_matches, puuid_queue, matches, empty_rounds, job_pc,
                   limit, job_calls, hist, rlvars, othervars>>

\* mutant of Chunk: the whole list is taken
ChunkUncapped(new_matches, cap) == new_matches

\* chunk = new_matches[:max(0, cap)] (line 133)
Chunk(new_matches, cap) == SubSeq(new_matches, 1, Min(Len(new_matches), Max(0, cap)))

\* mutant of CollectFrom: the first failed result ends the loop over the results
RECURSIVE CollectFromAbort(_, _)
CollectFromAbort(i, st) ==
    IF i > Len(tasks) THEN st
    ELSE IF ~tasks[i].ok THEN st
    ELSE LET chunk == Chunk(tasks[i].ms, max_matches - Len(st.matches))
             e     == Enqueue(tasks[i].ps, [scraped |-> st.scraped, queue |-> st.queue])
             st2   == [matches   |-> st.matches \o chunk,
                       batch_new |-> st.batch_new + Len(chunk),
                       scraped   |-> e.scraped,
                       queue     |-> e.queue,
                       progress  |-> Append(st.progress, Len(st.matches \o chunk))]
         IN IF Len(st2.matches) >= max_matches THEN st2 ELSE CollectFromAbort(i + 1, st2)

\* the loop over the results of the batch (lines 127-149)
RECURSIVE CollectFrom(_, _)
CollectFrom(i, st) ==
    IF i > Len(tasks) THEN st
    ELSE IF ~tasks[i].ok THEN CollectFrom(i + 1, st)
    ELSE LET chunk == Chunk(tasks[i].ms, max_matches - Len(st.matches))
             e     == Enqueue(tasks[i].ps, [scraped |-> st.scraped, queue |-> st.queue])
             st2   == [matches   |-> st.matches \o chunk,
                       batch_new |-> st.batch_new + Len(chunk),
                       scraped   |-> e.scraped,
                       queue     |-> e.queue,
                       progress  |-> Append(st.progress, Len(st.matches \o chunk))]
         IN IF Len(st2.matches) >= max_matches THEN st2 ELSE CollectFrom(i + 1, st2)

\* mutant of BatchRounds: a batch without a new match is not a dry round
BatchRoundsRefillOnly(batch_new, er) == IF batch_new = 0 THEN er ELSE 0

\* `if batch_new == 0: empty_rounds += 1 else: empty_rounds = 0` (lines 152-155)
BatchRounds(batch_new, er) == IF batch_new = 0 THEN er + 1 ELSE 0

RECURSIVE SumLen(_, _)
SumLen(ts, i) == IF i > Len(ts) THEN 0 ELSE Len(ts[i].ms) + SumLen(ts, i + 1)

\* gather has returned: the results are folded into the job (lines 126-155)
Collect ==
    /\ job_pc = "batch"
    /\ \A i \in 1..Len(tasks) : tasks[i].pc = "done"
    /\ LET r == CollectFrom(1, [matches |-> matches, batch_new |-> 0,
                                scraped |-> scraped_puuids, queue |-> puuid_queue,
                                progress |-> <<>>])
       IN /\ matches' = r.matches
          /\ scraped_puuids' = r.scraped
          /\ puuid_queue' = r.queue
          /\ empty_rounds' = BatchRounds(r.batch_new, empty_rounds)
          /\ hist' = [hist EXCEPT !.last_batch = SumLen(tasks, 1),
                                  !.progress = r.progress,
                                  !.dry_refills = IF r.batch_new = 0 THEN @ ELSE 0]
    /\ job_pc' = "loop"
    /\ UNCHANGED <<existing_ids, uc_scraped_match_ids, scraped_match_ids,
                   processed_puuids, seed_puuids, max_matches, limit, tasks, job_calls,
                   rlvars, othervars>>

CrawlNext ==
    \/ \E n \in 1..MaxTarget : StartJob(n)
    \/ LoopStep
    \/ \E i \in 1..MAX_CONCURRENT_REQUESTS : TaskIds(i)
    \/ \E i \in 1..MAX_CONCURRENT_REQUESTS : TaskDetails(i)
    \/ Collect

(***************************************************************************)
(* RetryPolicy and AdaptiveRetryPolicy                                     *)
(* (application/services/health/retry_policy.py)                           *)
(* Durations are in milliseconds, backoff_factor is in tenths.             *)
(***************************************************************************)

\* backoff_base_ms of from_env (HEALTH_RETRY_BACKOFF_MS)
BackoffBaseMs == 200

\* backoff_factor values: 1.0 and the from_env default 2.0
BackoffFactors == {10, 20}

\* retry_after_ms values of an error that carries one: below and above the base
RetryAfterHints == {100, 5000}

\* what the supplier may raise: status_code 0 stands for an exception without
\* that attribute, retry_after_ms 0 for None
Errors ==
    {[kind |-> k, status_code |-> 0, retry_after_ms |-> 0] : k \in {"timeout", "other"}}
        \cup {[kind |-> "http", status_code |-> sc, retry_after_ms |-> ra] :
                sc \in {429, 503}, ra \in {0} \cup RetryAfterHints}
        \cup {[kind |-> "http", status_code |-> 404, retry_after_ms |-> 0]}

NoError == [kind |-> "ok", status_code |-> 0, retry_after_ms |-> 0]

NoResult == [kind |-> "none", status_code |-> 0, retry_after_ms |-> 0]

\* the is_transient arguments: constant False, constant True, and the predicate
\* of HTTPChecker.check
Predicates == {"never", "always", "http"}

IsTransient(pred, e) ==
    CASE pred = "never"  -> FALSE
      [] pred = "always" -> TRUE
      [] OTHER -> \/ e.kind = "timeout"
                  \/ e.status_code = 429
                  \/ (500 <= e.status_code /\ e.status_code < 600)

RECURSIVE Pow(_, _)
Pow(b, n) == IF n = 0 THEN 1 ELSE b * Pow(b, n - 1)

\* int(self.backoff_base_ms * math.pow(self.backoff_factor, attempt - 1)) + self.jitter_ms
PlainBackoff(pol, k) ==
    ((pol.backoff_base_ms * Pow(pol.backoff_factor, k - 1)) \div Pow(10, k - 1))
        + pol.jitter_ms

\* mutant of AdaptiveBackoff: a hint replaces the running backoff
AdaptiveBackoffHintOnly(pol, b, e) ==
    IF e.status_code # 0
    THEN IF e.status_code = 429
         THEN IF e.retry_after_ms > 0 THEN e.retry_after_ms
              ELSE (b * 15) \div 10
         ELSE IF 500 <= e.status_code /\ e.status_code < 600
         THEN (b * pol.backoff_factor) \div 10
         ELSE b
    ELSE (b * pol.backoff_factor) \div 10

\* the update of backoff_ms after a failed attempt (lines 115-126)
AdaptiveBackoff(pol, b, e) ==
    IF e.status_code # 0
    THEN IF e.status_code = 429
         THEN IF e.retry_after_ms > 0 THEN Max(b, e.retry_after_ms)
              ELSE (b * 15) \div 10
         ELSE IF 500 <= e.status_code /\ e.status_code < 600
         THEN (b * pol.backoff_factor) \div 10
         ELSE b
    ELSE (b * pol.backoff_factor) \div 10

\* mutant of GiveUp: one attempt more than max_attempts
GiveUpLate(pol, k, transient) == k > pol.max_attempts \/ ~transient

\* `if attempt >= self.max_attempts or not transient: raise`
GiveUp(pol, k, transient) == k >= pol.max_attempts \/ ~transient

\* the policies run is called on: from_env of either class, max_attempts varied
Policies ==
    {[adaptive |-> a, max_attempts |-> n, backoff_base_ms |-> BackoffBaseMs,
      backoff_factor |-> f, jitter_ms |-> IF a THEN 50 ELSE 0] :
        a \in BOOLEAN, n \in 0..MaxAttempts, f \in BackoffFactors}

RetryInit ==
    /\ policy \in Policies
    /\ is_transient \in Predicates
    /\ attempt = 0
    /\ backoff_ms = 0
    /\ rp_pc = "idle"
    /\ rp_result = NoResult
    /\ rp_log = <<>>

\* the retry executor while another component runs
RetryParked ==
    /\ RetryInit
    /\ policy = [adaptive |-> FALSE, max_attempts |-> 0,
                 backoff_base_ms |-> BackoffBaseMs, backoff_factor |-> 10,
                 jitter_ms |-> 0]
    /\ is_transient = "never"

\* the top of the loop: `for attempt in range(1, max_attempts + 1)` and
\* `while attempt <= self.max_attempts`; falling out of it returns None
LoopTop(k) ==
    IF k <= policy.max_attempts
    THEN rp_pc' = "call" /\ rp_result' = rp_result
    ELSE rp_pc' = "returned" /\ rp_result' = NoResult

\* the entry of run: the loop variables and the first test of the loop
RunBody ==
    /\ attempt' = 1
    /\ backoff_ms' = IF policy.adaptive THEN policy.backoff_base_ms ELSE 0
    /\ LoopTop(1)

\* run is called (lines 46-55 and 94-104)
Run ==
    /\ rp_pc = "idle"
    /\ RunBody
    /\ UNCHANGED <<policy, is_transient, rp_log, rlvars, crawlvars, cbvars, seedvars,
                   clientvars>>

\* the backoff the policy has reached when attempt k fails: the running
\* backoff_ms of the adaptive class, the computed one of the plain class
Reached(k) == IF policy.adaptive THEN backoff_ms ELSE PlainBackoff(policy, k)

\* the awaited supplier returns (lines 59-60 and 108)
SupplierReturns ==
    /\ rp_pc = "call"
    /\ rp_log' = Append(rp_log, [e |-> NoError, sleep |-> -1,
                                 before |-> Reached(attempt)])
    /\ rp_pc' = "returned"
    /\ rp_result' = NoError
    /\ UNCHANGED <<policy, is_transient, attempt, backoff_ms, rlvars, crawlvars, cbvars, seedvars,
                   clientvars>>

\* the awaited supplier raises e (lines 61-70 and 109-127)
SupplierRaises(e) ==
    /\ rp_pc = "call"
    /\ IF GiveUp(policy, attempt, IsTransient(is_transient, e))
       THEN /\ rp_pc' = "raised"
            /\ rp_result' = e
            /\ rp_log' = Append(rp_log, [e |-> e, sleep |-> -1,
                                         before |-> Reached(attempt)])
            /\ UNCHANGED backoff_ms
       ELSE LET b == IF policy.adaptive THEN AdaptiveBackoff(policy, backoff_ms, e)
                     ELSE PlainBackoff(policy, attempt)
            IN /\ rp_pc' = "sleep"
               /\ backoff_ms' = b
               /\ rp_log' = Append(rp_log, [e |-> e, sleep |-> b,
                                            before |-> Reached(attempt)])
               /\ UNCHANGED rp_result
    /\ UNCHANGED <<policy, is_transient, attempt, rlvars, crawlvars, cbvars, seedvars,
                   clientvars>>

\* asyncio.sleep(backoff_ms / 1000.0) is over, the next iteration starts
SleepDone ==
    /\ rp_pc = "sleep"
    /\ attempt' = attempt + 1
    /\ LoopTop(attempt + 1)
    /\ UNCHANGED <<policy, is_transient, backoff_ms, rp_log, rlvars, crawlvars, cbvars, seedvars,
                   clientvars>>

RetryNext ==
    \/ Run
    \/ SupplierReturns
    \/ \E e \in Errors : SupplierRaises(e)
    \/ SleepDone

(***************************************************************************)
(* CircuitBreaker (application/services/health/circuit_breaker.py)         *)
(* Time is in seconds.                                                     *)
(***************************************************************************)

Keys == 1..NumKeys

\* a key without an entry in _states
Absent == [present |-> FALSE, failures |-> 0, opened_until |-> 0, half_open |-> FALSE]

\* _State()
FreshState == [present |-> TRUE, failures |-> 0, opened_until |-> 0, half_open |-> FALSE]

NoCall == [op |-> "none", key |-> 0, res |-> FALSE, at |-> 0, until |-> 0]

\* __init__: both arguments are raised to at least 1
BreakerInit ==
    /\ failure_threshold \in {Max(1, n) : n \in 0..MaxThreshold}
    /\ reset_timeout_s \in {Max(1, n) : n \in 0..MaxResetTimeout}
    /\ cb_states = [k \in Keys |-> Absent]
    /\ cb_now = 0
    /\ cb_last = NoCall
    /\ cb_streak = [k \in Keys |-> 0]
    /\ cb_opened_at = [k \in Keys |-> -1]
    /\ cb_probes = [k \in Keys |-> 0]

\* the breaker while another component runs
BreakerParked == BreakerInit /\ failure_threshold = 1 /\ reset_timeout_s = 1

\* mutant of StillOpen: the breaker lets calls through one second early
StillOpenButLast(st, t) == st.opened_until > t + 1

\* `if st.opened_until > now: return False`
StillOpen(st, t) == st.opened_until > t

\* allow(key): what it does to the breaker
AllowBody(k) ==
    LET st == cb_states[k]
    IN IF ~st.present
       THEN /\ cb_last' = [op |-> "allow", key |-> k, res |-> TRUE, at |-> cb_now,
                           until |-> 0]
            /\ UNCHANGED <<cb_states, cb_probes>>
       ELSE IF StillOpen(st, cb_now)
       THEN /\ cb_last' = [op |-> "allow", key |-> k, res |-> FALSE, at |-> cb_now,
                           until |-> st.opened_until]
            /\ UNCHANGED <<cb_states, cb_probes>>
       ELSE IF st.opened_until > 0 /\ st.opened_until <= cb_now
       THEN /\ cb_states' = [cb_states EXCEPT ![k].half_open = TRUE]
            /\ cb_last' = [op |-> "allow", key |-> k, res |-> TRUE, at |-> cb_now,
                           until |-> st.opened_until]
            /\ cb_probes' = [cb_probes EXCEPT ![k] = Min(@ + 1, 2)]
       ELSE /\ cb_last' = [op |-> "allow", key |-> k, res |-> TRUE, at |-> cb_now,
                           until |-> st.opened_until]
            /\ UNCHANGED <<cb_states, cb_probes>>

\* allow(key)
Allow(k) ==
    /\ AllowBody(k)
    /\ UNCHANGED <<failure_threshold, reset_timeout_s, cb_now, cb_streak, cb_opened_at,
                   rlvars, crawlvars, retryvars, seedvars, clientvars>>

\* mutant of Cleared: the failure counter survives a success
ClearedButCount(st) == [st EXCEPT !.opened_until = 0, !.half_open = FALSE]

\* st.failures = 0; st.opened_until = 0.0; st.half_open = False
Cleared(st) == [st EXCEPT !.failures = 0, !.opened_until = 0, !.half_open = FALSE]

\* record_success(key): what it does to the breaker
RecordSuccessBody(k) ==
    LET st == cb_states[k]
    IN /\ cb_states' = IF ~st.present THEN cb_states
                       ELSE [cb_states EXCEPT ![k] = Cleared(st)]
       /\ cb_last' = [op |-> "success", key |-> k, res |-> FALSE, at |-> cb_now,
                      until |-> st.opened_until]
       /\ cb_streak' = [cb_streak EXCEPT ![k] = 0]
       /\ cb_opened_at' = [cb_opened_at EXCEPT ![k] = -1]
       /\ cb_probes' = [cb_probes EXCEPT ![k] = 0]

\* record_success(key)
RecordSuccess(k) ==
    /\ RecordSuccessBody(k)
    /\ UNCHANGED <<failure_threshold, reset_timeout_s, cb_now, rlvars, crawlvars,
                   retryvars, seedvars, clientvars>>

\* mutant of Tripped: the breaker opens one failure late
TrippedLate(n) == n > failure_threshold

\* `if st.failures >= self.failure_threshold`
Tripped(n) == n >= failure_threshold

\* mutant of OpenDuration: the factor grows with every failed probe
OpenDurationEscalating(st) ==
    reset_timeout_s * (IF st.half_open THEN 1 + st.failures ELSE 1)

\* dur = self.reset_timeout_s * (2 if st.half_open else 1)
OpenDuration(st) == reset_timeout_s * (IF st.half_open THEN 2 ELSE 1)

\* record_failure(key): what it does to the breaker
RecordFailureBody(k) ==
    LET st0 == IF cb_states[k].present THEN cb_states[k] ELSE FreshState
        n   == st0.failures + 1
    IN /\ st0.failures < MaxFailures
       /\ IF Tripped(n)
          THEN LET dur == OpenDuration(st0)
               IN /\ cb_states' = [cb_states EXCEPT ![k] =
                                     [present |-> TRUE, failures |-> n,
                                      opened_until |-> cb_now + dur,
                                      half_open |-> FALSE]]
                  /\ cb_opened_at' = [cb_opened_at EXCEPT ![k] = cb_now]
          ELSE /\ cb_states' = [cb_states EXCEPT ![k] = [st0 EXCEPT !.failures = n]]
               /\ UNCHANGED cb_opened_at
       /\ cb_last' = [op |-> "failure", key |-> k, res |-> FALSE, at |-> cb_now,
                      until |-> st0.opened_until]
       /\ cb_streak' = [cb_streak EXCEPT ![k] = Min(@ + 1, MaxFailures)]
       /\ cb_probes' = [cb_probes EXCEPT ![k] = 0]

\* record_failure(key)
RecordFailure(k) ==
    /\ RecordFailureBody(k)
    /\ UNCHANGED <<failure_threshold, reset_timeout_s, cb_now, rlvars, crawlvars,
                   retryvars, seedvars, clientvars>>

\* time passes between two calls
BreakerTick ==
    /\ cb_now < MaxClock
    /\ cb_now' = cb_now + 1
    /\ UNCHANGED <<failure_threshold, reset_timeout_s, cb_states, cb_last, cb_streak,
                   cb_opened_at, cb_probes, rlvars, crawlvars, retryvars, seedvars,
                   clientvars>>

BreakerNext ==
    \/ \E k \in Keys : Allow(k)
    \/ \E k \in Keys : RecordSuccess(k)
    \/ \E k \in Keys : RecordFailure(k)
    \/ BreakerTick

(***************************************************************************)
(* SeedDiscoveryService: application/services/seed.py ("module") and       *)
(* application/services/seed/seed_discovery_service.py ("package").        *)
(* A summoner id or puuid 0 stands for a missing or empty value; a         *)
(* summoner name is never compared, so 1 stands for any name and 0 for a   *)
(* missing one.                                                            *)
(***************************************************************************)

SummonerIds == 1..NumSummonerIds

\* one entry of a league answer
EntryValues ==
    {[summonerId |-> i, summonerName |-> n] : i \in {0} \cup SummonerIds, n \in {0, 1}}

\* the "entries" of one league answer
EntryLists == UNION {[1..n -> EntryValues] : n \in 0..MaxEntries}

\* one league call: it raises, it answers None, it answers something that is
\* not a league (no "entries" mapping), or it answers a league with entries
LeagueOutcomes ==
    {[kind |-> k, entries |-> <<>>] : k \in {"exc", "none", "bad"}}
        \cup {[kind |-> "league", entries |-> es] : es \in EntryLists}

\* one get_league_entries call: it raises, answers nothing, or answers entries
PageOutcomes ==
    {[kind |-> k, entries |-> <<>>] : k \in {"exc", "none"}}
        \cup {[kind |-> "league", entries |-> es] : es \in EntryLists \ {<<>>}}

\* one get_summoner_by_id or get_summoner_by_name: it raises (-2), returns
\* None (-1), or a summoner with this puuid
ResolveOutcomes == {-2, -1} \cup (0..NumSeedPuuids)

\* the results of one gather of resolutions
ResolveResults == UNION {[1..n -> ResolveOutcomes] : n \in 0..MaxCount}

\* tiers x divisions of the slow path of the module (lines 57-58)
Pages ==
    <<<<"GOLD", "I">>, <<"GOLD", "II">>, <<"PLATINUM", "I">>, <<"PLATINUM", "II">>,
      <<"EMERALD", "I">>, <<"EMERALD", "II">>, <<"DIAMOND", "I">>, <<"DIAMOND", "II">>,
      <<"SILVER", "I">>, <<"SILVER", "II">>>>

\* tiers and divisions of the package (lines 22-23)
PackageTiers == <<"IRON", "BRONZE", "SILVER", "GOLD", "PLATINUM", "EMERALD", "DIAMOND">>

PackageDivisions == <<"I", "II", "III", "IV">>

\* number of (tier, division) pages of the running implementation
NumPages(impl) ==
    IF impl = "module" THEN Len(Pages) ELSE Len(PackageTiers) * Len(PackageDivisions)

\* s[:n]
Prefix(s, n) == SubSeq(s, 1, Min(Len(s), Max(n, 0)))

\* module: the loop over the entries of one answer (lines 44-49 and 67-72)
RECURSIVE TakeEntries(_, _, _)
TakeEntries(es, ids, c) ==
    IF es = <<>> THEN ids
    ELSE LET sid  == Head(es).summonerId
             ids1 == IF sid # 0 /\ sid \notin SeqToSet(ids) THEN Append(ids, sid) ELSE ids
         IN IF Len(ids1) >= c THEN ids1 ELSE TakeEntries(Tail(es), ids1, c)

\* module: the loop over the three league answers (lines 41-51); an answer
\* without "entries" raises inside the try and ends the fast path (lines 52-53)
RECURSIVE TakeBlobs(_, _, _)
TakeBlobs(blobs, ids, c) ==
    IF blobs = <<>> THEN ids
    ELSE LET blob == Head(blobs)
         IN IF blob.kind \in {"exc", "none"}
            THEN TakeBlobs(Tail(blobs), ids, c)
            ELSE IF blob.kind = "bad" THEN ids
            ELSE LET ids1 == TakeEntries(blob.entries, ids, c)
                 IN IF Len(ids1) >= c THEN ids1 ELSE TakeBlobs(Tail(blobs), ids1, c)

\* package: the loop over the entries of one league answer (lines 35-43); it
\* ends when count names are collected
RECURSIVE TakeTopEntries(_, _, _)
TakeTopEntries(es, st, c) ==
    IF es = <<>> THEN st
    ELSE LET e   == Head(es)
             st1 == [names |-> IF e.summonerName # 0 THEN Append(st.names, e.summonerName)
                               ELSE st.names,
                     ids   |-> IF e.summonerId # 0 THEN Append(st.ids, e.summonerId)
                               ELSE st.ids]
         IN IF Len(st1.names) >= c THEN st1 ELSE TakeTopEntries(Tail(es), st1, c)

\* package: the loop over [ch, gm, ms] (lines 32-45); an answer without
\* "entries" raises and ends the loop (lines 46-47)
RECURSIVE TakeTop(_, _, _)
TakeTop(blobs, st, c) ==
    IF blobs = <<>> THEN st
    ELSE LET blob == Head(blobs)
         IN IF blob.kind = "none" THEN TakeTop(Tail(blobs), st, c)
            ELSE IF blob.kind = "bad" THEN st
            ELSE LET st1 == TakeTopEntries(Prefix(blob.entries, c), st, c)
                 IN IF Len(st1.names) >= c THEN st1 ELSE TakeTop(Tail(blobs), st1, c)

\* package: the loop over the entries of one division page (lines 54-62); it
\* ends when count ids are collected
RECURSIVE TakePageEntries(_, _, _)
TakePageEntries(es, st, c) ==
    IF es = <<>> THEN st
    ELSE LET e   == Head(es)
             st1 == [names |-> IF e.summonerName # 0 THEN Append(st.names, e.summonerName)
                               ELSE st.names,
                     ids   |-> IF e.summonerId # 0 THEN Append(st.ids, e.summonerId)
                               ELSE st.ids]
         IN IF Len(st1.ids) >= c THEN st1 ELSE TakePageEntries(Tail(es), st1, c)

\* mutant of ReturnExceptions: the resolutions are gathered without it
ReturnExceptionsOff == FALSE

\* return_exceptions=True of the gather of the resolutions (module line 86)
ReturnExceptions == TRUE

\* mutant of SeenBefore: no puuid counts as seen
SeenNever(p, seen) == FALSE

\* `p not in seen` negated (module line 94, package line 87)
SeenBefore(p, seen) == p \in seen

\* module: the loop over the results of the resolutions (lines 88-96)
RECURSIVE TakePuuids(_, _)
TakePuuids(rs, puuids) ==
    IF rs = <<>> THEN puuids
    ELSE LET r == Head(rs)
         IN IF r < 0 \/ r = 0 \/ SeenBefore(r, SeqToSet(puuids))
            THEN TakePuuids(Tail(rs), puuids)
            ELSE TakePuuids(Tail(rs), Append(puuids, r))

\* package: the puuids of the results that are summoners (lines 72-75, 79-82)
ResultPuuids(rs) == SelectSeq(rs, LAMBDA r : r >= 0)

\* package: the dedup loop (lines 84-89)
RECURSIVE Ordered(_, _)
Ordered(puuids, ordered) ==
    IF puuids = <<>> THEN ordered
    ELSE IF SeenBefore(Head(puuids), SeqToSet(ordered))
    THEN Ordered(Tail(puuids), ordered)
    ELSE Ordered(Tail(puuids), Append(ordered, Head(puuids)))

SeedInit ==
    /\ sd_impl = "module"
    /\ count = 0
    /\ summoner_ids = <<>>
    /\ summoner_names = <<>>
    /\ sd_top = <<>>
    /\ sd_page = 0
    /\ sd_pc = "idle"
    /\ sd_name_results = <<>>
    /\ sd_results = <<>>
    /\ sd_ret = <<>>

\* discover_seed_puuids of one of the two implementations is called
Discover(impl, c) ==
    /\ sd_pc = "idle"
    /\ sd_impl' = impl
    /\ count' = c
    /\ sd_pc' = IF impl = "module" THEN "fast" ELSE "top"
    /\ UNCHANGED <<summoner_ids, summoner_names, sd_top, sd_page, sd_name_results,
                   sd_results, sd_ret, rlvars, crawlvars, retryvars, cbvars,
                   clientvars>>

\* the call goes on at pc with these locals
GoOn(pc, names, ids, page) ==
    /\ sd_pc' = pc
    /\ summoner_names' = names
    /\ summoner_ids' = ids
    /\ sd_page' = page
    /\ sd_ret' = sd_ret

\* `return ret`: the locals of the call are gone
Return(ret) ==
    /\ sd_pc' = "returned"
    /\ summoner_names' = <<>>
    /\ summoner_ids' = <<>>
    /\ sd_page' = 0
    /\ sd_ret' = ret

\* module, after the league answers: the slow path, the resolutions, or
\* `return []` (lines 56 and 80-81)
AfterLeagues(ids, c, page) ==
    IF Len(ids) < c /\ page <= NumPages("module")
    THEN GoOn("slow", <<>>, ids, page)
    ELSE IF ids = <<>> THEN Return(<<>>)
    ELSE GoOn("resolve", <<>>, ids, page)

\* module: the gather of the three league calls has returned (lines 34-56)
FastPath(blobs) ==
    /\ sd_pc = "fast"
    /\ AfterLeagues(TakeBlobs(blobs, summoner_ids, count), count, 1)
    /\ UNCHANGED <<sd_impl, count, sd_top, sd_name_results, sd_results,
                   rlvars, crawlvars, retryvars, cbvars,
                   clientvars>>

\* module: one get_league_entries call of the slow path has returned
\* (lines 59-78)
SlowPage(o) ==
    /\ sd_pc = "slow"
    /\ sd_impl = "module"
    /\ LET ids == IF o.kind = "league"
                  THEN TakeEntries(o.entries, summoner_ids, count)
                  ELSE summoner_ids
       IN AfterLeagues(ids, count, sd_page + 1)
    /\ UNCHANGED <<sd_impl, count, sd_top, sd_name_results, sd_results,
                   rlvars, crawlvars, retryvars, cbvars,
                   clientvars>>

\* module: the gather of the resolutions has returned (lines 84-98)
Resolve(rs) ==
    /\ sd_pc = "resolve"
    /\ Len(rs) = Len(Prefix(summoner_ids, count))
    /\ sd_results' = rs
    /\ IF ~ReturnExceptions /\ \E i \in 1..Len(rs) : rs[i] = -2
       THEN GoOn("raised", <<>>, <<>>, 0)
       ELSE Return(TakePuuids(rs, <<>>))
    /\ UNCHANGED <<sd_impl, count, sd_top, sd_name_results, rlvars, crawlvars,
                   retryvars, cbvars,
                   clientvars>>

\* package, after the lists are collected: the resolutions by name, else by
\* id, else the empty list (lines 68-90)
Resolving(st, page) ==
    IF st.names # <<>> THEN GoOn("names", st.names, st.ids, page)
    ELSE IF st.ids # <<>> THEN GoOn("ids", st.names, st.ids, page)
    ELSE Return(<<>>)

\* package, after the three league calls: the division pages or the
\* resolutions (line 48)
AfterTop(st, c) ==
    IF Len(st.names) < c THEN GoOn("slow", st.names, st.ids, 1)
    ELSE Resolving(st, 0)

\* package: one of the three awaited league calls has returned or raised
\* (lines 27-47)
TopCall(o) ==
    /\ sd_pc = "top"
    /\ IF o.kind = "exc"
       THEN /\ sd_top' = <<>>
            /\ AfterTop([names |-> summoner_names, ids |-> summoner_ids], count)
       ELSE IF Len(sd_top) < 2
       THEN /\ sd_top' = Append(sd_top, o)
            /\ UNCHANGED <<summoner_names, summoner_ids, sd_pc, sd_page, sd_ret>>
       ELSE /\ sd_top' = <<>>
            /\ AfterTop(TakeTop(Append(sd_top, o),
                                [names |-> summoner_names, ids |-> summoner_ids], count),
                        count)
    /\ UNCHANGED <<sd_impl, count, sd_name_results, sd_results, rlvars, crawlvars,
                   retryvars, cbvars,
                   clientvars>>

\* package: one get_league_entries call has returned or raised (lines 49-66);
\* a raise reaches the outer handler, which returns [] (lines 91-92)
PackagePage(o) ==
    /\ sd_pc = "slow"
    /\ sd_impl = "package"
    /\ IF o.kind = "exc" THEN Return(<<>>)
       ELSE LET st == IF o.kind = "league"
                      THEN TakePageEntries(o.entries,
                                           [names |-> summoner_names, ids |-> summoner_ids],
                                           count)
                      ELSE [names |-> summoner_names, ids |-> summoner_ids]
            IN IF (o.kind = "league" /\ Len(st.ids) >= count)
                    \/ sd_page + 1 > NumPages("package")
               THEN Resolving(st, sd_page + 1)
               ELSE GoOn("slow", st.names, st.ids, sd_page + 1)
    /\ UNCHANGED <<sd_impl, count, sd_top, sd_name_results, sd_results, rlvars,
                   crawlvars, retryvars, cbvars,
                   clientvars>>

\* package: the gather of get_summoner_by_name has returned (lines 69-76)
ResolveNames(rs) ==
    /\ sd_pc = "names"
    /\ Len(rs) = Len(Prefix(summoner_names, count))
    /\ sd_name_results' = rs
    /\ IF ResultPuuids(rs) = <<>> /\ summoner_ids # <<>>
       THEN /\ GoOn("ids", summoner_names, summoner_ids, sd_page)
            /\ sd_results' = sd_results
       ELSE /\ Return(Prefix(Ordered(ResultPuuids(rs), <<>>), count))
            /\ sd_results' = rs
    /\ UNCHANGED <<sd_impl, count, sd_top, rlvars, crawlvars, retryvars, cbvars,
                   clientvars>>

\* package: the gather of get_summoner_by_id has returned (lines 76-90)
ResolveIds(rs) ==
    /\ sd_pc = "ids"
    /\ Len(rs) = Len(Prefix(summoner_ids, count))
    /\ sd_results' = rs
    /\ Return(Prefix(Ordered(ResultPuuids(rs), <<>>), count))
    /\ UNCHANGED <<sd_impl, count, sd_top, sd_name_results, rlvars, crawlvars,
                   retryvars, cbvars,
                   clientvars>>

SeedNext ==
    \/ \E impl \in {"module", "package"}, c \in 0..MaxCount : Discover(impl, c)
    \/ \E blobs \in [1..3 -> LeagueOutcomes] : FastPath(blobs)
    \/ \E o \in PageOutcomes : SlowPage(o)
    \/ \E rs \in ResolveResults : Resolve(rs)
    \/ \E o \in LeagueOutcomes : TopCall(o)
    \/ \E o \in PageOutcomes : PackagePage(o)
    \/ \E rs \in ResolveResults : ResolveNames(rs)
    \/ \E rs \in ResolveResults : ResolveIds(rs)

(***************************************************************************)
(* RiotAPIClient._make_request (infrastructure/api/riot_client.py), called *)
(* by the coroutines of all crawl jobs on the one client they share        *)
(***************************************************************************)

Requesters == 1..NumRequesters

\* the endpoint_type arguments the client passes, "default" being the default
EndpointTypes == {"match", "summoner", "league", "default"}

\* the keys of EndpointRateLimiter.limiters (_setup_endpoint_limiters)
EndpointLimiters == {"match", "summoner", "league"}

\* limiter = self.limiters.get(endpoint, self._default_limiter)
LimiterOf(e) == IF e \in EndpointLimiters THEN e ELSE "default"

\* settings.RETRY_BACKOFF
RETRY_BACKOFF == 2

\* what `await self.session.get(url)` gives: a response with a status code,
\* httpx.HTTPError ("network"), or a response whose handling raises another
\* exception ("other", e.g. response.json() on a broken body)
Statuses == {200, 400, 401, 404, 429, 503}

\* the Retry-After header of a 429: absent, a number of seconds, or a date
RetryAfterHeaders == {"", "5", "soon"}

Responses ==
    {[kind |-> "status", status |-> s, retry_after |-> ""] : s \in Statuses \ {429}}
        \cup {[kind |-> "status", status |-> 429, retry_after |-> h] : h \in RetryAfterHeaders}
        \cup {[kind |-> k, status |-> 0, retry_after |-> ""] : k \in {"network", "other"}}

NoResponse == [kind |-> "none", status |-> 0, retry_after |-> ""]

\* int(response.headers.get('Retry-After', '1')); -1 stands for ValueError
RetryAfterSeconds(h) == CASE h = "" -> 1 [] h = "5" -> 5 [] OTHER -> -1

IdleRequest == [pc |-> "idle", endpoint_type |-> "default", attempt |-> 0,
                granted |-> 0, sent |-> 0, last |-> NoResponse, wait |-> 0,
                result |-> "none"]

RequestInit ==
    /\ max_retries \in 0..MaxRetries
    /\ rq = [r \in Requesters |-> IdleRequest]
    /\ rq_grants = [l \in EndpointLimiters \cup {"default"} |-> 0]
    /\ rq_sent = [l \in EndpointLimiters \cup {"default"} |-> 0]

\* the client while no request is made
RequestParked == RequestInit /\ max_retries = 0

\* mutant of LoopEntry: the limiter is asked once per call, not once per attempt
LoopEntryFirstOnly(k) == IF k = 0 THEN "acquire" ELSE "send"

\* the first statement of the body of `for attempt in range(max_retries + 1)`
\* is `await self.rate_limiter.acquire(endpoint_type)` (line 98)
LoopEntry(k) == "acquire"

\* the next iteration of the loop, or `return None` after it (lines 95, 132)
NextAttempt(q, k) ==
    IF k <= max_retries
    THEN [q EXCEPT !.pc = LoopEntry(k), !.attempt = k]
    ELSE [q EXCEPT !.pc = "returned", !.attempt = k, !.result = "none"]

\* a coroutine calls _make_request(url, e) (lines 92-95)
MakeRequest(r, e) ==
    /\ rq[r].pc = "idle"
    /\ rq' = [rq EXCEPT ![r] = NextAttempt([IdleRequest EXCEPT !.endpoint_type = e], 0)]
    /\ UNCHANGED <<max_retries, rq_grants, rq_sent, detvars, peervars, checkvars, rlvars,
                   crawlvars, retryvars, cbvars, seedvars>>

\* the acquire of the endpoint's limiter returns (lines 98, 160-164)
Acquired(r) ==
    /\ rq[r].pc = "acquire"
    /\ rq' = [rq EXCEPT ![r].pc = "send", ![r].granted = @ + 1]
    /\ rq_grants' = [rq_grants EXCEPT ![LimiterOf(rq[r].endpoint_type)] = @ + 1]
    /\ UNCHANGED <<max_retries, rq_sent, detvars, peervars, checkvars, rlvars, crawlvars,
                   retryvars, cbvars, seedvars>>

\* the request goes out: self.session.get(url) (line 100)
Send(r) ==
    /\ rq[r].pc = "send"
    /\ rq' = [rq EXCEPT ![r].pc = "get", ![r].sent = @ + 1]
    /\ rq_sent' = [rq_sent EXCEPT ![LimiterOf(rq[r].endpoint_type)] = @ + 1]
    /\ UNCHANGED <<max_retries, rq_grants, detvars, peervars, checkvars, rlvars, crawlvars,
                   retryvars, cbvars, seedvars>>

\* `if attempt < max_retries: sleep(RETRY_BACKOFF ** attempt); continue` else
\* `return None` (lines 112-117 and 122-126)
BackoffOrGiveUp(q) ==
    IF q.attempt < max_retries
    THEN [q EXCEPT !.pc = "sleep", !.wait = Pow(RETRY_BACKOFF, q.attempt)]
    ELSE [q EXCEPT !.pc = "returned", !.result = "none"]

\* what the loop body does with the answer of the request (lines 101-130)
Handle(q, resp) ==
    CASE resp.kind = "other" -> [q EXCEPT !.pc = "returned", !.result = "none"]
      [] resp.kind = "network" -> BackoffOrGiveUp(q)
      [] resp.status = 429 ->
            IF RetryAfterSeconds(resp.retry_after) < 0
            THEN [q EXCEPT !.pc = "returned", !.result = "none"]
            ELSE [q EXCEPT !.pc = "sleep", !.wait = RetryAfterSeconds(resp.retry_after)]
      [] resp.status = 404 -> [q EXCEPT !.pc = "returned", !.result = "none"]
      [] resp.status >= 400 -> BackoffOrGiveUp(q)
      [] OTHER -> [q EXCEPT !.pc = "returned", !.result = "json"]

\* the answer of the request arrives, or the request fails (lines 100-130)
GetResponse(r, resp) ==
    /\ rq[r].pc = "get"
    /\ rq' = [rq EXCEPT ![r] = Handle([rq[r] EXCEPT !.last = resp], resp)]
    /\ UNCHANGED <<max_retries, rq_grants, rq_sent, detvars, peervars, checkvars, rlvars,
                   crawlvars, retryvars, cbvars, seedvars>>

\* asyncio.sleep is over: `continue` (lines 105-106, 115-116, 124-125)
RequestSleepOver(r) ==
    /\ rq[r].pc = "sleep"
    /\ rq' = [rq EXCEPT ![r] = NextAttempt(rq[r], rq[r].attempt + 1)]
    /\ UNCHANGED <<max_retries, rq_grants, rq_sent, detvars, peervars, checkvars, rlvars,
                   crawlvars, retryvars, cbvars, seedvars>>

RequestNext ==
    \/ \E r \in Requesters, e \in EndpointTypes : MakeRequest(r, e)
    \/ \E r \in Requesters : Acquired(r)
    \/ \E r \in Requesters : Send(r)
    \/ \E r \in Requesters, resp \in Responses : GetResponse(r, resp)
    \/ \E r \in Requesters : RequestSleepOver(r)

(***************************************************************************)
(* DataScraperService._fetch_match_details and _get_match: the detail      *)
(* fetches of the tasks of one batch, each fetch on its own                *)
(***************************************************************************)

\* values of settings.TARGET_PATCH (an environment variable)
TargetPatches == {<<"1", "6", ".", "3">>, <<>>, <<"*">>, <<"A", "l", "l">>}

\* the tasks of a batch: batch_size = min(MAX_CONCURRENT_REQUESTS, len(queue))
Slots == 1..MAX_CONCURRENT_REQUESTS

\* new_ids[:limit]: a non-empty list of ids that were not in scraped_match_ids
\* when the task filtered them
NewIdLists(seen) == DupFreeSeqs(Matches \ seen, MaxDetailIds) \ {<<>>}

NoOutcome == [ok |-> FALSE, raised |-> FALSE, pv |-> <<>>]

IdleFetch == [pc |-> "idle", ids |-> <<>>, st |-> <<>>, out |-> <<>>,
              ms |-> <<>>, ps |-> <<>>]

DetailsInit ==
    /\ fd_target \in TargetPatches
    /\ fd_seen = {}
    /\ fd_known \in {{}, {2}}
    /\ fd = [t \in Slots |-> IdleFetch]
    /\ match_sem = MAX_CONCURRENT_REQUESTS

\* the service while no detail fetch is modelled
DetailsParked == DetailsInit /\ fd_target = <<>> /\ fd_known = {}

\* a task calls _fetch_match_details(region, new_ids[:limit]): one _get_match
\* per id is handed to gather (lines 192, 201-202)
FetchMatchDetails(t, ids) ==
    /\ fd[t].pc \in {"idle", "returned"}
    /\ fd' = [fd EXCEPT ![t] = [pc  |-> "gather",
                                ids |-> ids,
                                st  |-> [k \in 1..Len(ids) |-> "wait"],
                                out |-> [k \in 1..Len(ids) |-> NoOutcome],
                                ms  |-> <<>>,
                                ps  |-> <<>>]]
    /\ UNCHANGED <<fd_target, fd_seen, fd_known, match_sem, reqvars, peervars, checkvars, rlvars,
                   crawlvars, retryvars, cbvars, seedvars>>

\* mutant of SemFree: the semaphore lets every fetch through
SemFreeAlways(v) == TRUE

\* asyncio.Semaphore.acquire goes on when the value is positive
SemFree(v) == v > 0

\* `async with self._match_sem:` is entered and get_match_by_id starts (lines
\* 225-226)
SemAcquire(t, k) ==
    /\ fd[t].pc = "gather"
    /\ k \in 1..Len(fd[t].ids)
    /\ fd[t].st[k] = "wait"
    /\ SemFree(match_sem)
    /\ match_sem' = match_sem - 1
    /\ fd' = [fd EXCEPT ![t].st[k] = "flight"]
    /\ UNCHANGED <<fd_target, fd_seen, fd_known, reqvars, peervars, checkvars, rlvars, crawlvars,
                   retryvars, cbvars, seedvars>>

\* get_match_by_id returns or raises and the semaphore is released (line 226)
GetMatchDone(t, k, o) ==
    /\ fd[t].pc = "gather"
    /\ k \in 1..Len(fd[t].ids)
    /\ fd[t].st[k] = "flight"
    /\ match_sem' = match_sem + 1
    /\ fd' = [fd EXCEPT ![t].st[k] = "done", ![t].out[k] = o]
    /\ UNCHANGED <<fd_target, fd_seen, fd_known, reqvars, peervars, checkvars, rlvars, crawlvars,
                   retryvars, cbvars, seedvars>>

\* gather has returned: the loop over zip(match_ids, results) runs and the call
\* returns (matches, new_puuids) (lines 204-222)
FetchReturn(t) ==
    /\ fd[t].pc = "gather"
    /\ \A k \in 1..Len(fd[t].ids) : fd[t].st[k] = "done"
    /\ LET r == ZipLoop(fd[t].ids, fd[t].out, 1,
                        [seen |-> fd_seen, ms |-> <<>>, ps |-> <<>>, raised |-> {}],
                        Lower(fd_target), fd_known)
       IN /\ fd_seen' = r.seen
          /\ fd' = [fd EXCEPT ![t] = [IdleFetch EXCEPT !.pc = "returned",
                                                       !.ms = r.ms, !.ps = r.ps]]
    /\ UNCHANGED <<fd_target, fd_known, match_sem, reqvars, peervars, checkvars, rlvars,
                   crawlvars, retryvars, cbvars, seedvars>>

DetailsNext ==
    \/ \E t \in Slots : \E ids \in NewIdLists(fd_seen) : FetchMatchDetails(t, ids)
    \/ \E t \in Slots, k \in 1..MaxDetailIds : SemAcquire(t, k)
    \/ \E t \in Slots, k \in 1..MaxDetailIds, o \in FetchOutcomes : GetMatchDone(t, k, o)
    \/ \E t \in Slots : FetchReturn(t)


\* execute builds one DataScraperService per queue type (lines 102-109) and each
\* gets a scraped_match_ids of its own (__init__, line 49). The job of the other
\* queue type of the region runs the code of the crawl job on its own service;
\* of that run the insertions into its own set are kept.
PeerInit == peer_scraped_match_ids = {}

\* the job of the other queue type lists match m, finds it new in the set of its
\* own service, fetches its detail and accepts it (lines 188, 215)
PeerAccepts(m) ==
    /\ job_pc \in {"loop", "batch"}
    /\ m \notin peer_scraped_match_ids
    /\ peer_scraped_match_ids' = peer_scraped_match_ids \cup {m}
    /\ UNCHANGED <<reqvars, detvars, checkvars, rlvars, crawlvars, retryvars, cbvars,
                   seedvars>>

(***************************************************************************)
(* HTTPChecker.check (application/services/health/http_checker.py) with    *)
(* its retry policy and its circuit breaker                                *)
(***************************************************************************)

\* status codes of an answer that _request returns: 2xx, or neither 2xx, 429 nor 5xx
ReturnedStatuses == {200, 404}

IdleCheck == [pc |-> "idle", host |-> 0, allowed |-> FALSE, error |-> "", success |-> FALSE,
              records |-> 0, kept |-> TRUE, calls |-> 0]

CheckInit == hc = IdleCheck

\* what _request raises: a timeout or another exception, or TransientHTTPError for
\* a 429 or 5xx answer, with or without Retry-After (lines 82-90, 109-120)
RequestErrors ==
    {e \in Errors : \/ e.status_code = 0
                    \/ e.status_code = 503 /\ e.retry_after_ms = 0
                    \/ e.status_code = 429 /\ e.retry_after_ms = 5000}

\* check(url) up to its first await (lines 31-40, 122-123)
Check(k) ==
    /\ hc.pc \in {"idle", "done"}
    /\ hc.calls < MaxChecks
    /\ AllowBody(k)
    /\ rp_log' = <<>>
    /\ IF cb_last'.res
       THEN /\ RunBody
            /\ hc' = [IdleCheck EXCEPT !.pc = "retry", !.host = k, !.allowed = TRUE,
                                       !.kept = (cb_states' = cb_states),
                                       !.calls = hc.calls + 1]
       ELSE /\ attempt' = 0 /\ backoff_ms' = 0 /\ rp_pc' = "idle" /\ rp_result' = NoResult
            /\ hc' = [IdleCheck EXCEPT !.pc = "done", !.host = k, !.error = "circuit-open",
                                       !.kept = (cb_states' = cb_states),
                                       !.calls = hc.calls + 1]
    /\ UNCHANGED <<failure_threshold, reset_timeout_s, cb_now, cb_streak, cb_opened_at,
                   policy, is_transient, reqvars, detvars, peervars, rlvars, crawlvars,
                   seedvars>>

\* mutant of RunResolved: the outcome is recorded after every failed attempt
RunResolvedOrFailed == rp_pc \in {"returned", "raised", "sleep"}

\* `await self.retry.run(...)` has returned or raised (lines 123, 135)
RunResolved == rp_pc \in {"returned", "raised"}

\* `result.success` of what run returned: an answer of the given status, or None
\* (run fell out of its loop), whose attribute access raises
ResultSuccess(status) ==
    IF rp_pc = "returned" /\ rp_result = NoError
    THEN IF 200 <= status /\ status < 300 THEN "true" ELSE "false"
    ELSE "raises"

\* check(url) after the await: the outcome is recorded and returned (lines 129-143)
CheckResolve(status) ==
    /\ hc.pc = "retry"
    /\ RunResolved
    /\ IF ResultSuccess(status) = "true"
       THEN /\ RecordSuccessBody(hc.host)
            /\ hc' = [hc EXCEPT !.pc = "done", !.success = TRUE, !.records = @ + 1]
       ELSE /\ RecordFailureBody(hc.host)
            /\ hc' = [hc EXCEPT !.pc = "done", !.records = @ + 1,
                                !.error = IF ResultSuccess(status) = "false" THEN ""
                                          ELSE "exception"]
    /\ UNCHANGED <<failure_threshold, reset_timeout_s, cb_now, retryvars, reqvars,
                   detvars, peervars, rlvars, crawlvars, seedvars>>

CheckNext ==
    \/ \E k \in Keys : Check(k)
    \/ \E status \in ReturnedStatuses : CheckResolve(status)
    \/ SupplierReturns
    \/ \E e \in RequestErrors : SupplierRaises(e)
    \/ SleepDone
    \/ BreakerTick

\* the shared client idle, no detail fetch running, the other job not started
ClientParked == RequestParked /\ DetailsParked /\ PeerInit /\ CheckInit

\* a use case right after construction, its rate limiter idle
InitCrawl == RLParked /\ CrawlInit /\ RetryParked /\ BreakerParked /\ SeedInit /\ ClientParked

SpecCrawl == InitCrawl /\ [][CrawlNext]_vars

\* every started remote fetch returns and the event loop runs every ready task
SpecCrawlFair ==
    /\ InitCrawl /\ [][CrawlNext]_vars
    /\ WF_vars(LoopStep)
    /\ WF_vars(Collect)
    /\ \A i \in 1..MAX_CONCURRENT_REQUESTS : WF_vars(TaskIds(i)) /\ WF_vars(TaskDetails(i))

\* a rate limiter right after construction, no crawl job running
InitRL == RLInit /\ CrawlParked /\ RetryParked /\ BreakerParked /\ SeedInit /\ ClientParked

SpecRL == InitRL /\ [][RLNext]_vars

\* the clock reaches the end of a pending sleep
TickToWakeup == Tick /\ now' \in Wakeups

\* time advances, and the event loop runs every task that can run
SpecRLFair ==
    /\ InitRL /\ [][RLNext]_vars
    /\ WF_vars(TickToWakeup)
    /\ \A p \in Callers : WF_vars(LockResume(p)) /\ WF_vars(SleepOver(p))

\* one run of a retry policy
InitRetry == RLParked /\ CrawlParked /\ RetryInit /\ BreakerParked /\ SeedInit /\ ClientParked

\* a circuit breaker right after construction
InitBreaker == RLParked /\ CrawlParked /\ RetryParked /\ BreakerInit /\ SeedInit /\ ClientParked

SpecBreaker == InitBreaker /\ [][BreakerNext]_vars

\* a seed discovery service, no call made yet
InitSeed == RLParked /\ CrawlParked /\ RetryParked /\ BreakerParked /\ SeedInit /\ ClientParked

SpecSeed == InitSeed /\ [][SeedNext]_vars

SpecRetry == InitRetry /\ [][RetryNext]_vars

\* an HTTPChecker with the predicate of check, its policy and its breaker
InitCheck ==
    /\ RLParked /\ CrawlParked /\ RetryInit /\ is_transient = "http" /\ BreakerInit
    /\ SeedInit /\ ClientParked

SpecCheck == InitCheck /\ [][CheckNext]_vars

\* the jobs of the two queue types of a region, gathered by execute (line 128)
JobsNext ==
    \/ CrawlNext
    \/ \E m \in Matches : PeerAccepts(m)

SpecJobs == InitCrawl /\ [][JobsNext]_vars

\* a service whose batch is about to fetch match details
InitDetails ==
    /\ RLParked /\ CrawlParked /\ RetryParked /\ BreakerParked /\ SeedInit
    /\ RequestParked /\ DetailsInit /\ PeerInit /\ CheckInit

SpecDetails == InitDetails /\ [][DetailsNext]_vars

\* a client right after construction, shared by the coroutines of all jobs
InitRequest ==
    /\ RLParked /\ CrawlParked /\ RetryParked /\ BreakerParked /\ SeedInit
    /\ RequestInit /\ DetailsParked /\ PeerInit /\ CheckInit

SpecRequest == InitRequest /\ [][RequestNext]_vars

(***************************************************************************)
(* Claims about the rate limiter                                           *)
(***************************************************************************)

\* the grants of one epoch (no reset in between) that lie in [t, t + window]
GrantsIn(t, e, window) ==
    {j \in 1..Len(grants) :
        grants[j][2] = e /\ grants[j][1] >= t /\ grants[j][1] - t <= window}

\* C1: without a reset in between, no interval as long as the short window holds
\* more grants than the short-window limit, and no interval as long as the long
\* window holds more grants than the long-window limit, whatever the interleaving
\* of the callers.
C1_RateBound ==
    \A i \in 1..Len(grants) :
        /\ Cardinality(GrantsIn(grants[i][1], grants[i][2], ShortWindow))
              <= requests_per_10_sec
        /\ Cardinality(GrantsIn(grants[i][1], grants[i][2], LongWindow))
              <= requests_per_10_min

\* a caller that found the short window full was granted right after the edge
C1_Witness ==
    \E i, j \in 1..Len(grants) :
        /\ grants[i][2] = grants[j][2]
        /\ grants[j][3]
        /\ grants[j][1] = grants[i][1] + ShortWindow + 1
        /\ Cardinality(GrantsIn(grants[i][1], grants[i][2], ShortWindow))
              = requests_per_10_sec

\* C2: each deque holds at most as many entries as the limit of its window, and
\* get_status never reports a used count above the corresponding limit.
C2_DequeBound ==
    /\ Len(request_times_10_sec) <= requests_per_10_sec
    /\ Len(request_times_10_min) <= requests_per_10_min
    /\ get_status[1] <= get_status[2]
    /\ get_status[3] <= get_status[4]

\* both deques are full while a caller sleeps
C2_Witness ==
    /\ Len(request_times_10_sec) = requests_per_10_sec
    /\ Len(request_times_10_min) = requests_per_10_min
    /\ get_status[3] = requests_per_10_min
    /\ \E p \in Callers : rl_pc[p] = "sleep"

\* C3: with both limits at least 1 and time advancing, every acquire call that
\* is suspended (on the lock or in a sleep) is eventually granted.
C3_EventuallyGranted ==
    \A p \in Callers :
        (requests_per_10_sec >= 1 /\ requests_per_10_min >= 1 /\ rl_op[p] = "acquire")
            ~> (rl_op[p] = "none")

\* a caller that slept on a full long window has been granted while another
\* caller was queued behind it
C3_Witness ==
    /\ \E i \in 1..Len(grants) : grants[i][3] /\ grants[i][1] > LongWindow
    /\ \E p \in Callers : rl_pc[p] = "ready" /\ rl_op[p] = "acquire"

(***************************************************************************)
(* Claims about the crawl job                                              *)
(***************************************************************************)

Terminated == job_pc \in {"complete", "exhausted", "error"}

\* C4: in every terminated job no match id occurs twice in the returned list,
\* also when two candidates of one batch list the same unseen match id.
C4_NoDuplicateMatch ==
    job_pc \in {"complete", "exhausted"} =>
        \A i, j \in 1..Len(matches) : i # j => matches[i] # matches[j]

\* C5: no match id of the pre-loaded set is passed to a detail fetch or returned
\* by a job that execute runs.
C5_PreloadedNeverFetched ==
    /\ hist.fetched \cap existing_ids = {}
    /\ SeqToSet(matches) \cap existing_ids = {}

\* C6: at every point of a job the frontier holds no candidate of the visited
\* set processed_puuids.
C6_FrontierUnvisited == SeqToSet(puuid_queue) \cap processed_puuids = {}

\* discovered participants were enqueued behind candidates still waiting, after
\* a batch was visited
C6_Witness ==
    /\ job_pc = "loop"
    /\ processed_puuids # {}
    /\ Len(puuid_queue) >= 2
    /\ \E i \in 1..Len(tasks) : tasks[i].ps # <<>>

\* C7: the result never holds more than max_matches matches, and a job that
\* stops at the target returns exactly max_matches matches.
C7_TargetExact ==
    /\ job_pc # "idle" => Len(matches) <= max_matches
    /\ job_pc = "complete" => Len(matches) = max_matches

\* the job stopped at the target after a batch that fetched more than the target
C7_Witness == job_pc = "complete" /\ hist.last_batch > max_matches

\* the scenario of C8: three seed candidates, every match-id fetch and every
\* Seed Provider call came back empty, and the job is over
C8_Scenario ==
    /\ Terminated
    /\ hist.init_len = 3
    /\ ~hist.ids_found
    /\ ~hist.seed_found

CeilDiv(a, b) == (a + b - 1) \div b

C9_Terminates == (job_pc \in {"loop", "batch"}) ~> Terminated

\* a job gave up although the Seed Provider kept answering, with known candidates
C9_Witness ==
    /\ job_pc = "exhausted"
    /\ hist.seed_found
    /\ hist.seed_calls >= 2
    /\ hist.boot = "skipped"

\* C10: a job that starts without usable seeds, without a known unprocessed
\* candidate and with an empty bootstrap fails with the configuration error,
\* with no result and before any match-id or match-detail fetch.
C10_NoSeedsIsError ==
    (hist.boot = "empty" \/ job_pc = "error") =>
        /\ job_pc = "error"
        /\ matches = <<>>
        /\ hist.id_fetched = {}
        /\ hist.detail_fetched = {}

\* the second call on a service whose known candidates are all processed failed
C10_Witness ==
    /\ job_pc = "error"
    /\ hist.boot = "empty"
    /\ processed_puuids # {}
    /\ processed_puuids = scraped_puuids

(***************************************************************************)
(* Claims about failures inside a batch                                    *)
(***************************************************************************)

\* the candidate of task i had a fetch that raised
Failing(i) == tasks[i].id_err \/ tasks[i].raised # {}

\* the matches found by the tasks i, i + 1, ... of the batch, in task order
RECURSIVE AllFound(_)
AllFound(i) == IF i > Len(tasks) THEN <<>> ELSE tasks[i].ms \o AllFound(i + 1)

\* C11 as stated: a candidate whose match-id fetch or one of whose match-detail
\* fetches raised contributes no match at all to the batch.
C11_FailingContributesNothing ==
    \A i \in 1..Len(tasks) : Failing(i) => tasks[i].ms = <<>>

\* C11 amended: when the gather of a batch returns, the job goes on with its
\* loop, the result grows by the matches found by all tasks of the batch, in
\* task order and up to the target; a candidate whose match-id fetch raised has
\* found no match, and a candidate one of whose detail fetches raised has found
\* only matches whose own detail fetch did not raise.
C11_FailureIsolated ==
    [][ (job_pc = "batch" /\ job_pc' # "batch") =>
          /\ job_pc' = "loop"
          /\ matches' = SubSeq(matches \o AllFound(1), 1,
                               Min(Len(matches \o AllFound(1)), max_matches))
          /\ \A i \in 1..Len(tasks) :
                /\ tasks[i].id_err => tasks[i].ms = <<>>
                /\ SeqToSet(tasks[i].ms) \cap tasks[i].raised = {} ]_vars

\* a batch has been folded in which one candidate had a raising detail fetch and
\* still found a match, and the match of a sibling is in the result
C11_Witness ==
    /\ job_pc = "loop"
    /\ hist.last_batch >= 1
    /\ \E i, j \in 1..Len(tasks) :
          /\ i # j
          /\ tasks[i].raised # {} /\ tasks[i].ms # <<>>
          /\ tasks[j].ms # <<>> /\ SeqToSet(tasks[j].ms) \subseteq SeqToSet(matches)

(***************************************************************************)
(* Claims about the retry policies                                         *)
(***************************************************************************)

\* run has returned a value or raised
RunOver == rp_pc \in {"returned", "raised"}

\* the k-th supplier call succeeded or failed with a non-transient error
Decisive(k) == rp_log[k].e = NoError \/ ~IsTransient(is_transient, rp_log[k].e)

\* C12: with an is_transient that is False for every error, a run whose supplier
\* fails invokes the supplier exactly once and re-raises its error, whatever
\* max_attempts is and for both classes.
C12_TerminalOnce ==
    (RunOver /\ is_transient = "never")
        => /\ Len(rp_log) = 1
           /\ rp_log[1].e # NoError => (rp_pc = "raised" /\ rp_result = rp_log[1].e)

\* C13: when run is over, the supplier has been invoked as many times as the
\* index of the first attempt that succeeded or failed non-transiently, at most
\* max_attempts times; a success is returned, a last failure is raised, and
\* there is a sleep after every attempt but the last one.
C13_AttemptCount ==
    RunOver =>
        LET n == Len(rp_log)
        IN /\ n <= Max(policy.max_attempts, 0)
           /\ \A k \in 1..(n - 1) : ~Decisive(k) /\ rp_log[k].sleep >= 0
           /\ n >= 1 =>
                /\ n = policy.max_attempts \/ Decisive(n)
                /\ rp_log[n].sleep = -1
                /\ rp_result = rp_log[n].e
                /\ rp_pc = IF rp_log[n].e = NoError THEN "returned" ELSE "raised"
           /\ n < policy.max_attempts => (n >= 1 /\ Decisive(n))

\* all max_attempts attempts failed transiently, with sleeps in between
C13_Witness ==
    /\ rp_pc = "raised"
    /\ policy.max_attempts = MaxAttempts
    /\ Len(rp_log) = MaxAttempts
    /\ IsTransient(is_transient, rp_log[MaxAttempts].e)

\* C14: the sleep after a failed attempt that carries a retry-after hint h is
\* at least h, and it is longer than h only when the backoff reached before
\* that attempt already exceeded h.
C14_HintHonoured ==
    \A k \in 1..Len(rp_log) :
        (rp_log[k].sleep >= 0 /\ rp_log[k].e.retry_after_ms > 0)
            => /\ rp_log[k].sleep >= rp_log[k].e.retry_after_ms
               /\ rp_log[k].sleep > rp_log[k].e.retry_after_ms
                    => rp_log[k].before > rp_log[k].e.retry_after_ms

(***************************************************************************)
(* Claims about the circuit breaker                                        *)
(***************************************************************************)

\* C15: an allow(key) made while the clock is before the key's open-until
\* timestamp returns False, and an allow call leaves that timestamp as it was.
C15_DeniedWhileOpen ==
    cb_last.op = "allow" =>
        /\ cb_last.at < cb_last.until => ~cb_last.res
        /\ cb_states[cb_last.key].opened_until = cb_last.until

\* an allow was denied on an open breaker right after another denied allow
C15_Witness ==
    /\ cb_last.op = "allow"
    /\ cb_last.at < cb_last.until
    /\ ~cb_last.res
    /\ cb_last.at > cb_opened_at[cb_last.key]

\* C16: once failure_threshold record_failure calls in a row were made for a
\* key, the breaker is open from the last of them on, and an allow(key) returns
\* True only when reset_timeout_s have passed since the breaker opened.
C16_OpensAtThreshold ==
    \A k \in Keys :
        cb_streak[k] >= failure_threshold =>
            /\ cb_opened_at[k] >= 0
            /\ cb_states[k].opened_until >= cb_opened_at[k] + reset_timeout_s
            /\ (cb_last.op = "allow" /\ cb_last.key = k) =>
                 /\ cb_last.at = cb_opened_at[k] => ~cb_last.res
                 /\ cb_last.res => cb_last.at >= cb_opened_at[k] + reset_timeout_s

\* after threshold-many failures in a row (more than one), an allow was let
\* through once the timeout had passed
C16_Witness ==
    /\ failure_threshold > 1
    /\ cb_last.op = "allow"
    /\ cb_last.res
    /\ cb_streak[cb_last.key] = failure_threshold
    /\ cb_last.at >= cb_opened_at[cb_last.key] + reset_timeout_s

\* C17: right after record_success(key) the key has no failures, no open-until
\* timestamp and no half-open flag, whatever its state was; and a breaker is
\* only ever open after failure_threshold failures since the last success.
C17_SuccessClears ==
    /\ cb_last.op = "success" =>
         LET st == cb_states[cb_last.key]
         IN st.failures = 0 /\ st.opened_until = 0 /\ ~st.half_open
    /\ \A k \in Keys :
         cb_states[k].opened_until > 0 => cb_streak[k] >= failure_threshold

\* a success was recorded on an open breaker
C17_Witness == cb_last.op = "success" /\ cb_last.until > cb_last.at

\* C18: after the open interval of a key has expired, at most one allow(key)
\* returns True before record_success or record_failure is called for the key.
C18_SingleProbe == \A k \in Keys : cb_probes[k] <= 1

(***************************************************************************)
(* Claims about seed discovery                                             *)
(***************************************************************************)

\* the resolutions whose puuid the running call takes: summoners with a puuid;
\* the package also takes a summoner whose puuid is missing
Resolved ==
    {i \in 1..Len(sd_results) :
        IF sd_impl = "module" THEN sd_results[i] > 0 ELSE sd_results[i] >= 0}

\* s holds no element twice
DupFree(s) == \A i, j \in 1..Len(s) : i # j => s[i] # s[j]

\* C19: discover_seed_puuids never raises, whatever the league calls, the
\* division pages and the resolutions do; it returns a list that holds exactly
\* the puuids of the resolutions that succeeded, so a failed resolution takes
\* away only its own handle.
C19_NeverRaises ==
    /\ sd_pc # "raised"
    /\ sd_pc = "returned" => SeqToSet(sd_ret) = {sd_results[i] : i \in Resolved}

\* a call has returned the puuid of one handle although the resolution of
\* another handle raised
C19_Witness ==
    /\ sd_pc = "returned"
    /\ \E i \in 1..Len(sd_results) : sd_results[i] = -2
    /\ sd_ret # <<>>

\* C20: the list returned for count holds at most count puuids and none twice.
C20_AtMostCountDistinct ==
    sd_pc = "returned" => (Len(sd_ret) <= count /\ DupFree(sd_ret))

\* two handles resolved to the same puuid and the list holds it once
C20_Witness ==
    /\ sd_pc = "returned"
    /\ \E i, j \in Resolved : i # j /\ sd_results[i] = sd_results[j]
    /\ Len(sd_ret) = 1

(***************************************************************************)
(* Claims about the requests of the shared client                          *)
(***************************************************************************)

\* C21: every request attempt of _make_request, the retries after an error and
\* the re-attempts after a 429 included, is preceded by its own granted acquire
\* on the limiter of its endpoint class: a call has sent as many requests as it
\* was granted when a request is in flight and never more, and for every
\* limiter the requests sent never exceed its grants, whatever the number of
\* coroutines sharing the client.
C21_SentWithinGrants ==
    /\ \A l \in DOMAIN rq_sent : rq_sent[l] <= rq_grants[l]
    /\ \A r \in Requesters :
          /\ rq[r].sent <= rq[r].granted
          /\ rq[r].pc = "get" => rq[r].sent = rq[r].granted

\* two coroutines have a request of the same endpoint class in flight, one
\* re-attempting after a 429 and the other retrying after an error
C21_Witness ==
    \E r1, r2 \in Requesters :
        /\ r1 # r2
        /\ rq[r1].endpoint_type = rq[r2].endpoint_type
        /\ rq[r1].pc = "get" /\ rq[r1].attempt >= 1 /\ rq[r1].last.status = 429
        /\ rq[r2].pc = "get" /\ rq[r2].attempt >= 1 /\ rq[r2].last.kind = "network"

\* unauthorized, malformed request, not found
TerminalClientErrors == {400, 401, 404}

\* C30: a terminal client error ends the call at once with a failure, and only
\* a 429, a server error or a network error is followed by a further attempt.
C30_TerminalNotRetried ==
    \A r \in Requesters :
        /\ (rq[r].last.kind = "status" /\ rq[r].last.status \in TerminalClientErrors
               /\ rq[r].pc # "get")
             => (rq[r].pc = "returned" /\ rq[r].result = "none")
        /\ rq[r].pc = "sleep" =>
              \/ rq[r].last.kind = "network"
              \/ rq[r].last.status = 429
              \/ rq[r].last.status >= 500

(***************************************************************************)
(* Claims about the jobs of one process                                    *)
(***************************************************************************)

\* C22: the concurrent jobs share one match-id dedup set: a match id that the
\* job of the other queue type has accepted is never passed to a detail fetch
\* of this job afterwards, nor returned by it.
C22_AcceptedElsewhereNeverFetched ==
    [][ \A m \in peer_scraped_match_ids :
            /\ m \in hist'.detail_fetched => m \in hist.detail_fetched
            /\ m \in SeqToSet(matches') => m \in SeqToSet(matches) ]_vars

(***************************************************************************)
(* Claims about the loop of the crawl job                                  *)
(***************************************************************************)

\* the gather of a batch returns and its results are folded into the job
BatchFolded == job_pc = "batch" /\ job_pc' = "loop"

\* C23: after every processed batch, also one in which every candidate failed
\* or yielded no match, the progress hook has been invoked with the current
\* number of collected matches, and the counts reported never decrease.
C23_ProgressAfterEveryBatch ==
    [][ BatchFolded =>
          /\ hist'.progress # <<>>
          /\ hist'.progress[Len(hist'.progress)] = Len(matches')
          /\ \A k \in 1..Len(hist'.progress) :
                /\ hist'.progress[k] >= Len(matches)
                /\ k > 1 => hist'.progress[k] >= hist'.progress[k - 1] ]_vars

BatchOf(ts) == [i \in 1..Len(ts) |-> ts[i].puuid]

\* C25: within one job the detail of a match id is fetched by at most one task,
\* also when two candidates of the same batch list it.
C25_OneFetchPerMatch ==
    \A i, j \in 1..Len(tasks) :
        i # j => SeqToSet(tasks[i].ids) \cap SeqToSet(tasks[j].ids) = {}

\* the candidates whose match-id fetch is started by this step
FetchStarted ==
    IF job_pc = "loop" /\ job_pc' = "batch"
    THEN {tasks'[i].puuid : i \in {k \in 1..Len(tasks') : tasks'[k].pc = "ids"}}
    ELSE {}

\* C26: a popped candidate is marked visited before its match-id fetch starts,
\* stays visited whatever the fetch does, is never enqueued again and its
\* match-id list is never fetched a second time, by a later batch or refill.
C26_FetchedAtMostOnce ==
    [][ /\ processed_puuids \subseteq processed_puuids'
        /\ FetchStarted \subseteq processed_puuids'
        /\ FetchStarted \cap (processed_puuids \cup hist.id_fetched) = {}
        /\ (job_pc = "loop" /\ job_pc' = "batch") =>
              \A i, j \in 1..Len(tasks') :
                  (i # j /\ tasks'[i].pc = "ids") => tasks'[i].puuid # tasks'[j].puuid
        /\ (job_pc = "loop" /\ job_pc' = "batch") =>
              SeqToSet(BatchOf(tasks')) \cap processed_puuids = {}
        /\ SeqToSet(puuid_queue') \cap processed_puuids' = {} ]_vars

\* a candidate whose match-id fetch raised is visited, while the job goes on
\* with a candidate still waiting
C26_Witness ==
    /\ job_pc = "loop"
    /\ puuid_queue # <<>>
    /\ \E i \in 1..Len(tasks) : tasks[i].id_err /\ tasks[i].puuid \in processed_puuids

\* C27: a candidate occurs at most once in the frontier and never both in the
\* frontier and in the batch in flight, and the candidates leave the frontier
\* in the order in which they were enqueued: a batch is the front of the
\* frontier and new candidates are appended behind the waiting ones.
C27_FrontierFifo ==
    [][ /\ \A i, j \in 1..Len(puuid_queue') :
              i # j => puuid_queue'[i] # puuid_queue'[j]
        /\ job_pc' = "batch" =>
              SeqToSet(puuid_queue') \cap SeqToSet(BatchOf(tasks')) = {}
        /\ (job_pc = "loop" /\ job_pc' = "batch") =>
              IsPrefix(puuid_queue, BatchOf(tasks') \o puuid_queue')
        /\ (job_pc = "loop" /\ job_pc' = "loop") => IsPrefix(puuid_queue, puuid_queue')
        /\ BatchFolded => IsPrefix(puuid_queue, puuid_queue')
        /\ job_pc = "batch" => (job_pc' = "batch" => puuid_queue' = puuid_queue) ]_vars

\* a batch of two was popped from the front of a frontier of three and folded,
\* the third candidate is still waiting
C27_Witness ==
    /\ job_pc = "loop"
    /\ hist.init_len = 3
    /\ Len(tasks) = 2
    /\ Len(puuid_queue) = 1
    /\ processed_puuids = SeqToSet(BatchOf(tasks))

(***************************************************************************)
(* Claims about the match-detail fetches                                   *)
(***************************************************************************)

\* the detail fetches of the job that hold the semaphore
InFlight == {<<t, k>> \in Slots \X (1..MaxDetailIds) :
                fd[t].pc = "gather" /\ k <= Len(fd[t].ids) /\ fd[t].st[k] = "flight"}

\* C28: at every moment at most MAX_CONCURRENT_REQUESTS match-detail fetches of
\* the job are in flight, whatever the size of the batch and the number of new
\* match ids of each candidate.
C28_DetailFetchesCapped ==
    /\ Cardinality(InFlight) <= MAX_CONCURRENT_REQUESTS
    /\ match_sem = MAX_CONCURRENT_REQUESTS - Cardinality(InFlight)

\* the cap is reached while a further fetch of the batch waits for the semaphore
C28_Witness ==
    /\ Cardinality(InFlight) = MAX_CONCURRENT_REQUESTS
    /\ \E t \in Slots : \E k \in 1..Len(fd[t].ids) :
          fd[t].pc = "gather" /\ fd[t].st[k] = "wait"

\* the patch tag pv carries the target patch: it equals it or starts with it, or
\* the target is empty or a wildcard
OnTargetPatch(pv) ==
    \/ fd_target = <<>>
    \/ Lower(fd_target) \in {<<"a", "n", "y">>, <<"a", "l", "l">>, <<"*">>}
    \/ Lower(pv) = Lower(fd_target)
    \/ /\ Len(pv) >= Len(fd_target)
       /\ \A i \in 1..Len(fd_target) : LowerChar(pv[i]) = LowerChar(fd_target[i])

\* the positions of the fetched matches of call t that are on the target patch
OnTarget(t) == {k \in 1..Len(fd[t].ids) : fd[t].out[k].ok /\ OnTargetPatch(fd[t].out[k].pv)}

\* C29: when _fetch_match_details returns, exactly the fetched matches on the
\* target patch are in the returned matches and newly recorded in the seen set,
\* and only their participants are offered as new candidates; a call none of
\* whose matches is on the target patch returns nothing and records nothing.
C29_OnlyTargetPatchAccepted ==
    [][ \A t \in Slots :
          (fd[t].pc = "gather" /\ fd'[t].pc = "returned") =>
             /\ SeqToSet(fd'[t].ms) = {fd[t].ids[k] : k \in OnTarget(t)}
             /\ fd_seen' = fd_seen \cup {fd[t].ids[k] : k \in OnTarget(t)}
             /\ SeqToSet(fd'[t].ps) =
                   UNION {SeqToSet(ParticipantsOf(fd[t].ids[k])) : k \in OnTarget(t)}
                       \ fd_known
             /\ OnTarget(t) = {} =>
                   (fd'[t].ms = <<>> /\ fd'[t].ps = <<>> /\ fd_seen' = fd_seen) ]_vars

\* under a target patch that is not a wildcard a call has returned one of its
\* two fetched matches, the other one carrying another patch
C29_Witness ==
    /\ fd_target = <<"1", "6", ".", "3">>
    /\ \E t \in Slots :
          /\ fd[t].pc = "returned"
          /\ Len(fd[t].ms) = 1
          /\ fd[t].ps # <<>>
          /\ Cardinality(fd_seen) = 1
    /\ \E t \in Slots :
          /\ fd[t].pc = "gather"
          /\ \E k \in 1..Len(fd[t].ids) :
                fd[t].out[k].ok /\ fd[t].out[k].pv = <<"1", "6", ".", "2">>

(***************************************************************************)
(* RateLimiter: the length of a sleep, the lock, and reset                 *)
(***************************************************************************)

\* caller p starts an asyncio.sleep in this step (line 87)
BeginsSleep(p) ==
    /\ rl_pc'[p] = "sleep"
    /\ rl_pc[p] # "sleep" \/ wake_at'[p] # wake_at[p]

ShortFull == Len(request_times_10_sec) >= requests_per_10_sec /\ request_times_10_sec # <<>>

LongFull == Len(request_times_10_min) >= requests_per_10_min /\ request_times_10_min # <<>>

\* time until the oldest entry of a window reaches the window length
UntilShortExpiry == ShortWindow - (now - Head(request_times_10_sec))

UntilLongExpiry == LongWindow - (now - Head(request_times_10_min))

\* C31 as stated: with both windows full, a sleep lasts the smaller of the two
\* times until the oldest entry of a window expires.
C31_SleepsSmaller ==
    [][\A p \in Callers :
          (BeginsSleep(p) /\ ShortFull' /\ LongFull')
              => wake_at'[p] - now' = Min(UntilShortExpiry', UntilLongExpiry')]_vars

\* C31 amended: a sleep lasts the largest of the default wait (0.1 s) and, for
\* every window that is full, the time until its oldest entry reaches the window
\* length; with both windows full it is never shorter than either time.
C31_SleepsLarger ==
    [][\A p \in Callers :
          BeginsSleep(p)
              => /\ wake_at'[p] - now' >= DefaultWait
                 /\ ShortFull' => wake_at'[p] - now' >= UntilShortExpiry'
                 /\ LongFull' => wake_at'[p] - now' >= UntilLongExpiry'
                 /\ wake_at'[p] - now' \in
                        {DefaultWait}
                        \cup (IF ShortFull' THEN {UntilShortExpiry'} ELSE {})
                        \cup (IF LongFull' THEN {UntilLongExpiry'} ELSE {})]_vars

\* a caller sleeps with both windows full, until the later of the two expiries
C31_Witness ==
    \E p \in Callers :
        /\ rl_pc[p] = "sleep"
        /\ ShortFull /\ LongFull
        /\ wake_at[p] = Head(request_times_10_min) + LongWindow
        /\ Head(request_times_10_sec) + ShortWindow < wake_at[p]
        /\ now < wake_at[p]


(***************************************************************************)
(* CircuitBreaker: the open interval                                       *)
(***************************************************************************)

\* this step is a record_failure(k)
FailureRecorded(k) == cb_states'[k].failures = cb_states[k].failures + 1

\* this step is a record_failure(k) that opens the breaker
Opens(k) == FailureRecorded(k) /\ cb_states'[k].failures >= failure_threshold

\* C32: every opening lasts reset_timeout_s, or twice that when the failure is
\* recorded with the key half-open, and never more than twice reset_timeout_s.
C32_OpenDurationCapped ==
    [][\A k \in Keys :
          Opens(k)
              => /\ cb_states'[k].opened_until - cb_now =
                        IF cb_states[k].half_open THEN 2 * reset_timeout_s
                        ELSE reset_timeout_s
                 /\ cb_states'[k].opened_until - cb_now <= 2 * reset_timeout_s]_vars

\* the third failure in a row, each of the last two recorded by a probe after the
\* open interval had expired, has opened the breaker for twice the timeout
C32_Witness ==
    \E k \in Keys :
        /\ cb_last.op = "failure" /\ cb_last.key = k
        /\ failure_threshold = 1
        /\ cb_states[k].failures = 3
        /\ cb_last.until > reset_timeout_s /\ cb_last.until <= cb_now
        /\ cb_states[k].opened_until = cb_now + 2 * reset_timeout_s

\* C38: record_failure never moves the open-until timestamp of a key earlier.
C38_OpenUntilNeverEarlier ==
    [][\A k \in Keys :
          FailureRecorded(k) => cb_states'[k].opened_until >= cb_states[k].opened_until]_vars


(***************************************************************************)
(* AdaptiveRetryPolicy: the running backoff                                *)
(***************************************************************************)

\* attempt k of the running call failed and was followed by a sleep
Retried(k) == rp_log[k].sleep >= 0

ServerError(e) == 500 <= e.status_code /\ e.status_code < 600

Throttled(e) == e.status_code = 429 /\ e.retry_after_ms > 0

\* the running backoff starts at backoff_base_ms and is carried over
BackoffCarried ==
    /\ Len(rp_log) >= 1 => rp_log[1].before = policy.backoff_base_ms
    /\ \A k \in 2..Len(rp_log) : rp_log[k].before = rp_log[k - 1].sleep
    /\ rp_pc \in {"call", "sleep"} =>
          backoff_ms = IF rp_log = <<>> THEN policy.backoff_base_ms
                       ELSE rp_log[Len(rp_log)].sleep

\* C33 as stated: in AdaptiveRetryPolicy.run the running backoff starts at
\* backoff_base_ms, is carried from attempt to attempt, is multiplied by
\* backoff_factor after a 5xx failure, becomes the hint after a 429 that carries
\* one, and never decreases.
C33_BackoffBecomesHint ==
    policy.adaptive =>
        /\ BackoffCarried
        /\ \A k \in 1..Len(rp_log) :
              Retried(k) =>
                 /\ ServerError(rp_log[k].e) =>
                       rp_log[k].sleep = (rp_log[k].before * policy.backoff_factor) \div 10
                 /\ Throttled(rp_log[k].e) => rp_log[k].sleep = rp_log[k].e.retry_after_ms
                 /\ rp_log[k].sleep >= rp_log[k].before

\* C33 amended: after a 429 that carries a hint the running backoff becomes the
\* larger of itself and the hint; the rest as stated.
C33_BackoffRaisedToHint ==
    policy.adaptive =>
        /\ BackoffCarried
        /\ \A k \in 1..Len(rp_log) :
              Retried(k) =>
                 /\ ServerError(rp_log[k].e) =>
                       rp_log[k].sleep = (rp_log[k].before * policy.backoff_factor) \div 10
                 /\ Throttled(rp_log[k].e) =>
                       rp_log[k].sleep = Max(rp_log[k].before, rp_log[k].e.retry_after_ms)
                 /\ rp_log[k].sleep >= rp_log[k].before

\* a 503 doubled the backoff to 400 ms, a 429 with a hint of 100 ms left it
\* there, and the third attempt started with it
C33_Witness ==
    /\ policy.adaptive /\ policy.backoff_factor = 20
    /\ Len(rp_log) = 3
    /\ ServerError(rp_log[1].e) /\ rp_log[1].sleep = 2 * BackoffBaseMs
    /\ Throttled(rp_log[2].e) /\ rp_log[2].e.retry_after_ms < rp_log[2].before
    /\ rp_log[2].sleep = 2 * BackoffBaseMs
    /\ rp_log[3].before = 2 * BackoffBaseMs


(***************************************************************************)
(* HTTPChecker.check and the breaker                                       *)
(***************************************************************************)

\* C34: check asks allow(host) before any request; a denied check sends no
\* request, returns a circuit-open failure and leaves the breaker as it was; an
\* allowed check records exactly one outcome for the host, after the retried
\* call has resolved, whatever the number of attempts.
C34_ConsultedThenRecordedOnce ==
    /\ Len(rp_log) > 0 => hc.allowed
    /\ (hc.pc = "done" /\ ~hc.allowed)
          => /\ rp_log = <<>> /\ rp_pc = "idle"
             /\ hc.error = "circuit-open" /\ ~hc.success
             /\ hc.records = 0
             /\ hc.kept
    /\ hc.pc = "retry" => hc.records = 0
    /\ (hc.pc = "done" /\ hc.allowed)
          => /\ hc.records = 1
             /\ rp_pc \in {"returned", "raised"}
             /\ Len(rp_log) <= Max(policy.max_attempts, 0)

\* an allowed check has recorded its one outcome after three attempts
C34_Witness ==
    /\ hc.pc = "done" /\ hc.allowed
    /\ Len(rp_log) = 3
    /\ hc.records = 1


(***************************************************************************)
(* SeedDiscoveryService: the division pages                                *)
(***************************************************************************)

\* C35: a division page is queried only while fewer than count handles are
\* collected and pages are left, and the pages are queried in tier-then-division
\* order, the first one right after the league answers.
C35_DivisionsOnlyWhileShort ==
    [][sd_pc' = "slow" =>
          /\ Len(summoner_ids') < count'
          /\ sd_page' \in 1..NumPages(sd_impl')
          /\ sd_page' = IF sd_pc = "slow" THEN sd_page + 1 ELSE 1]_vars


(***************************************************************************)
(* DataScraperService: the dedup sets and the result                       *)
(***************************************************************************)

\* C36: during a run of a crawl job, whatever its end, processed_puuids,
\* scraped_puuids and scraped_match_ids only grow.
C36_DedupSetsOnlyGrow ==
    [][/\ processed_puuids \subseteq processed_puuids'
       /\ scraped_puuids \subseteq scraped_puuids'
       /\ scraped_match_ids \subseteq scraped_match_ids']_vars

\* a second run on the service has ended with the configuration error and the
\* sets filled by the first run are still there
C36_Witness ==
    /\ job_pc = "error"
    /\ job_calls = 2
    /\ processed_puuids # {}
    /\ scraped_match_ids # {}
    /\ processed_puuids = scraped_puuids


\* C37: every match id that the job has put into scraped_match_ids is the id of
\* a match of the list it returns; stated for the first call on a service, whose
\* set starts empty.
C37_SeenImpliesReturned ==
    (job_calls = 1 /\ job_pc \in {"complete", "exhausted"})
        => scraped_match_ids \subseteq SeqToSet(matches)


(***************************************************************************)
(* RateLimiter: the lock and reset                                         *)
(***************************************************************************)

Sleepers == {p \in Callers : rl_pc[p] = "sleep"}

\* C39: while a caller sleeps inside acquire it owns the lock: nobody else is
\* granted and no reset is done until it has been granted, every other caller
\* queues behind it, and the lock goes to the callers in their order of arrival.
C39_LockHeldAcrossSleep ==
    [][/\ \A p \in Sleepers :
             /\ lock_holder = p
             /\ epoch' = epoch
             /\ request_times_10_sec' # request_times_10_sec => rl_pc'[p] # rl_pc[p]
                                                                \/ wake_at'[p] # wake_at[p]
             /\ grants' # grants => rl_pc'[p] = "idle"
             /\ \A q \in Callers \ {p} : rl_pc'[q] \in {"idle", "wait"} \/ rl_pc'[p] = "idle"
       /\ \/ lock_waiters' = lock_waiters
          \/ \E q \in Callers : lock_waiters' = Append(lock_waiters, q)
          \/ lock_waiters # <<>> /\ lock_waiters' = Tail(lock_waiters)
       /\ lock_waiters # <<>> =>
             /\ lock_holder # 0
             /\ lock_holder' \in {lock_holder, Head(lock_waiters)}
             /\ lock_holder' # lock_holder => lock_waiters' = Tail(lock_waiters)]_vars

\* the caller that slept inside acquire while a reset and then an acquire queued
\* for the lock has been granted, and the lock has gone to the reset
C39_Witness ==
    \E p, q, r \in Callers :
        /\ rl_pc[p] = "idle" /\ grants # <<>> /\ grants[Len(grants)][3]
        /\ rl_pc[q] = "ready" /\ rl_op[q] = "reset" /\ lock_holder = q
        /\ rl_pc[r] = "wait" /\ rl_op[r] = "acquire"
        /\ lock_waiters = <<r>>
        /\ epoch = 0


\* the grants of all epochs that lie in [t, t + window]
AllGrantsIn(t, window) ==
    {j \in 1..Len(grants) : grants[j][1] >= t /\ grants[j][1] - t <= window}

\* the number of resets between the first and the last grant of a set of grants
ResetsAmong(S) ==
    CHOOSE r \in 0..MaxCalls :
        \E i, j \in S : /\ r = grants[j][2] - grants[i][2]
                        /\ \A k \in S : grants[i][2] <= grants[k][2]
                                        /\ grants[k][2] <= grants[j][2]

\* an interval of window length that starts at a grant holds at most (r + 1) times
\* the limit of the window, r being the resets done inside it
BoundedPerReset ==
    \A i \in 1..Len(grants) :
        LET S10  == AllGrantsIn(grants[i][1], ShortWindow)
            S600 == AllGrantsIn(grants[i][1], LongWindow)
        IN /\ Cardinality(S10) <= (ResetsAmong(S10) + 1) * requests_per_10_sec
           /\ Cardinality(S600) <= (ResetsAmong(S600) + 1) * requests_per_10_min

\* C40: reset empties both windows and changes nothing else of the limiter, and
\* with r resets inside an interval of window length the grants in it are bounded
\* by (r + 1) times the limit.
C40_ResetClearsBothWindows ==
    [][/\ epoch' # epoch =>
             /\ request_times_10_sec' = <<>>
             /\ request_times_10_min' = <<>>
             /\ UNCHANGED <<requests_per_10_sec, requests_per_10_min, grants, wake_at, now>>
       /\ BoundedPerReset']_vars

\* right after a grant that filled both windows and a reset, the next acquire
\* was granted at the same instant: twice the limit inside one window
C40_Witness ==
    \E i, j \in 1..Len(grants) :
        /\ grants[j][1] = grants[i][1]
        /\ grants[j][2] = grants[i][2] + 1
        /\ ~grants[j][3]
        /\ Cardinality(AllGrantsIn(grants[i][1], ShortWindow)) = 2 * requests_per_10_sec
        /\ Cardinality(AllGrantsIn(grants[i][1], LongWindow)) = 2 * requests_per_10_min

====
